---- MODULE Spec2Model ----
(***************************************************************************)
(* A model of the Qwen agentic server: the tool-call parser and the        *)
(* streaming inference loop of qwen_api.py with its HTTP endpoint, the     *)
(* per-session streaming log buffer of streaming_logger.py and the         *)
(* structured event logger of inference_logger.py.                         *)
(*                                                                         *)
(* A text is a sequence of tokens: every token is one character, except    *)
(* the literal "[[qwen-tool-start]]", which str.count and str.find treat   *)
(* as one unit and which is therefore one token.  Positions are 1-based    *)
(* (Python position p is position p + 1 here); "not found" is 0.           *)
(***************************************************************************)
EXTENDS Integers, Sequences, FiniteSets, TLC

VARIABLES
    \* ---- parse_tool_call applied to one text (specification SpecParse)
    p_pc,          \* "input" before the call, "done" after it
    p_text,        \* the response text handed to parse_tool_call
    p_object,      \* the JSON object the text was built around
    p_cut,         \* number of tokens cut off the end of the text of p_object
    p_result,      \* what parse_tool_call did: a return value or an exception
    \* ---- inference_loop (specification SpecLoop)
    pc,            \* position of the generator
    messages,      \* the conversation: sequence of [role, content]
    assistant_response, \* text accumulated from the current stream
    events,        \* everything yielded to the caller, in order
    fragments,     \* number of stream fragments consumed in this turn
    turn,          \* number of model streams opened so far
    turn_calls,    \* functions called while handling the current turn
    turn_events,   \* events yielded since the current stream was opened
    tool_call_data, \* what parse_tool_call returned (JNone: None)
    outcome,       \* what the last call of execute_tool did
    slept,         \* seconds spent in time.sleep by the loop (history)
    \* ---- StreamingLogger (specification SpecLog)
    session_buffers, \* session_id -> list of chunks (absent: not in DOMAIN)
    session_files,   \* session_id -> open file handle (an index into files)
    last_flush,      \* session_id -> time of the last flush
    lock,            \* holder of self.lock, or "free"
    files,           \* every file ever created: [sid, dir, stamp, content, mtime]
    now,             \* time.time()
    tpc,             \* thread -> position
    tlocal,          \* thread -> local variables of the running call
    calls,           \* number of calls the client threads have started
    appended,        \* session_id -> every chunk whose append_chunk went through
    oplog,           \* session_id -> history of finished calls
    \* ---- InferenceLogger (specification SpecEvent)
    ev_config,       \* the configuration: [enabled, to_file]
    session_data,    \* session_id -> [inference_rounds, tools_used]
    records,         \* the lines of the daily .jsonl file, in order
    error_lines,     \* the lines of the daily error log, in order
    ev_calls,        \* number of calls made on the logger
    ev_outcome,      \* what the last call on the logger did
    ev_reported,     \* session_id -> the round of the last assistant turn
                     \* reported since inference_start (history)
    \* ---- query_endpoint (the first step of specification SpecLoop)
    payload,         \* the body of the inbound request
    http             \* what query_endpoint returned: [status, body]

parseVars == <<p_pc, p_text, p_object, p_cut, p_result>>
loopVars == <<pc, messages, assistant_response, events, fragments, turn,
              turn_calls, turn_events, tool_call_data, outcome, slept>>
logVars == <<session_buffers, session_files, last_flush, lock, files, now,
             tpc, tlocal, calls, appended, oplog>>
evVars == <<ev_config, session_data, records, error_lines, ev_calls, ev_outcome,
           ev_reported>>
reqVars == <<payload, http>>
vars == <<parseVars, loopVars, logVars, evVars, reqVars>>

(***************************************************************************)
(* Sequence helpers.                                                       *)
(***************************************************************************)
RECURSIVE Concat(_)
\* ''.join(chunks)
Concat(ss) == IF ss = <<>> THEN <<>> ELSE Head(ss) \o Concat(Tail(ss))

\* str.find(c, i): the first position >= i holding token c, or 0
FindFrom(s, c, i) ==
    IF \E j \in i..Len(s) : s[j] = c
    THEN CHOOSE j \in i..Len(s) :
            s[j] = c /\ \A k \in i..(j - 1) : s[k] # c
    ELSE 0

\* str.count(c)
Count(s, c) == Cardinality({ i \in 1..Len(s) : s[i] = c })

StartMarker == "[[qwen-tool-start]]"

\* The three grave accents that open and close a code fence, as one token
\* (the character itself cannot be written in a string of this language).
Fence == "<fence>"

(***************************************************************************)
(* JSON values, as json.loads builds them.  A value is a record            *)
(* [t, s, m]: a string (t = "str", s its characters), a number (t = "num", *)
(* s its digits) or an object (t = "obj", m its members in source order,   *)
(* each [k, v]).  A dict keeps the last value given for a repeated key.    *)
(***************************************************************************)
JStr(chars) == [t |-> "str", s |-> chars, m |-> <<>>]
JNum(digits) == [t |-> "num", s |-> digits, m |-> <<>>]
JObj(members) == [t |-> "obj", s |-> <<>>, m |-> members]
Member(key, val) == [k |-> key, v |-> val]
JNone == [t |-> "none", s |-> <<>>, m |-> <<>>]

\* key in d
HasKey(d, key) == \E i \in 1..Len(d.m) : d.m[i].k = key

\* d[key], for a key the dict has
GetKey(d, key) ==
    LET last == CHOOSE i \in 1..Len(d.m) :
                    /\ d.m[i].k = key
                    /\ \A j \in (i + 1)..Len(d.m) : d.m[j].k # key
    IN d.m[last].v

\* d.get(key, default)
GetOr(d, key, default) == IF HasKey(d, key) THEN GetKey(d, key) ELSE default

Quote == "\""
Whitespace == {" ", "\n"}
Digits == {"1"}

RECURSIVE SkipWs(_, _)
SkipWs(s, i) ==
    IF i <= Len(s) /\ s[i] \in Whitespace THEN SkipWs(s, i + 1) ELSE i

RECURSIVE StringEnd(_, _)
\* position of the quote closing a string whose characters start at j, or 0
\* (a raw line break inside a string is an invalid control character)
StringEnd(s, j) ==
    IF j > Len(s) THEN 0
    ELSE IF s[j] = Quote THEN j
    ELSE IF s[j] = "\n" THEN 0
    ELSE StringEnd(s, j + 1)

RECURSIVE DigitsEnd(_, _)
DigitsEnd(s, j) ==
    IF j <= Len(s) /\ s[j] \in Digits THEN DigitsEnd(s, j + 1) ELSE j

JFail == [ok |-> FALSE, v |-> JNone, next |-> 0]
JOk(val, nxt) == [ok |-> TRUE, v |-> val, next |-> nxt]

RECURSIVE ScanValue(_, _)
RECURSIVE ScanMembers(_, _, _)
\* the decoder's scan_once: the value starting at position i
ScanValue(s, i) ==
    IF i > Len(s) THEN JFail
    ELSE IF s[i] = Quote THEN
        LET e == StringEnd(s, i + 1)
        IN IF e = 0 THEN JFail ELSE JOk(JStr(SubSeq(s, i + 1, e - 1)), e + 1)
    ELSE IF s[i] \in Digits THEN
        LET e == DigitsEnd(s, i)
        IN JOk(JNum(SubSeq(s, i, e - 1)), e)
    ELSE IF s[i] = "{" THEN
        LET j == SkipWs(s, i + 1)
        IN IF j <= Len(s) /\ s[j] = "}" THEN JOk(JObj(<<>>), j + 1)
           ELSE ScanMembers(s, j, <<>>)
    ELSE JFail

\* the members of an object from position j (a key is expected there)
ScanMembers(s, j, acc) ==
    IF j > Len(s) \/ s[j] # Quote THEN JFail
    ELSE
        LET e == StringEnd(s, j + 1)
        IN IF e = 0 THEN JFail
           ELSE
            LET key == SubSeq(s, j + 1, e - 1)
                c == SkipWs(s, e + 1)
            IN IF c > Len(s) \/ s[c] # ":" THEN JFail
               ELSE
                LET r == ScanValue(s, SkipWs(s, c + 1))
                IN IF ~r.ok THEN JFail
                   ELSE
                    LET d == SkipWs(s, r.next)
                        acc2 == Append(acc, Member(key, r.v))
                    IN IF d > Len(s) THEN JFail
                       ELSE IF s[d] = "}" THEN JOk(JObj(acc2), d + 1)
                       ELSE IF s[d] = "," THEN
                            ScanMembers(s, SkipWs(s, d + 1), acc2)
                       ELSE JFail

\* json.loads(block): ok is FALSE where it raises JSONDecodeError
json_loads(block) ==
    LET r == ScanValue(block, SkipWs(block, 1))
    IN IF r.ok /\ SkipWs(block, r.next) = Len(block) + 1 THEN r ELSE JFail

\* json.dumps(value, separators=(",", ":")): the text of a value
RECURSIVE Serialize(_)
RECURSIVE SerializeMembers(_)
Serialize(val) ==
    IF val.t = "str" THEN <<Quote>> \o val.s \o <<Quote>>
    ELSE IF val.t = "num" THEN val.s
    ELSE <<"{">> \o SerializeMembers(val.m) \o <<"}">>

SerializeMembers(ms) ==
    IF ms = <<>> THEN <<>>
    ELSE <<Quote>> \o ms[1].k \o <<Quote, ":">> \o Serialize(ms[1].v)
         \o (IF Len(ms) > 1 THEN <<",">> ELSE <<>>)
         \o SerializeMembers(Tail(ms))

(***************************************************************************)
(* parse_tool_call (qwen_api.py).  The result is [kind, exc, data]:        *)
(* kind "return" with the parsed dict, or kind "raise" with the class of   *)
(* the exception that leaves the function.                                 *)
(***************************************************************************)
NameKey == <<"n", "a", "m", "e">>
InputKey == <<"i", "n", "p", "u", "t">>

Return(d) == [kind |-> "return", exc |-> "", data |-> d]
\* mutant: the failure is swallowed and an empty request returned
RaiseSwallowed(e) == [kind |-> "return", exc |-> "", data |-> JObj(<<>>)]
Raise(e) == [kind |-> "raise", exc |-> e, data |-> JNone]

\* the step of the scan loop: the new brace_count after reading token c
BraceStep(count, c) ==
    IF c = "{" THEN count + 1
    ELSE IF c = "}" THEN count - 1
    ELSE count

RECURSIVE ScanBraces(_, _, _)
\* the while loop: json_end when brace_count reaches 0, or 0 when
\* response[json_end] runs past the end of the text (IndexError)
ScanBraces(response, json_end, brace_count) ==
    IF brace_count <= 0 THEN json_end
    ELSE IF json_end > Len(response) THEN 0
    ELSE ScanBraces(response, json_end + 1,
                    BraceStep(brace_count, response[json_end]))

\* response[json_start:json_end] as the scan delimits it: the text handed to
\* json.loads, or the empty text when the function raises before the slice
tool_call_block(response) ==
    LET start_marker_pos == FindFrom(response, StartMarker, 1)
        json_start == IF start_marker_pos = 0 THEN 0
                      ELSE FindFrom(response, "{", start_marker_pos)
        json_end == IF json_start = 0 THEN 0
                    ELSE ScanBraces(response, json_start + 1, 1)
    IN IF json_end = 0 THEN <<>>
       ELSE SubSeq(response, json_start, json_end - 1)

parse_tool_call(response) ==
    LET start_marker_pos == FindFrom(response, StartMarker, 1)
    IN IF start_marker_pos = 0 THEN Raise("ValueError")
       ELSE
        LET json_start == FindFrom(response, "{", start_marker_pos)
        IN IF json_start = 0 THEN Raise("ValueError")
           ELSE
            LET json_end == ScanBraces(response, json_start + 1, 1)
            IN IF json_end = 0 THEN Raise("IndexError")
               ELSE
                LET decoded == json_loads(tool_call_block(response))
                IN IF ~decoded.ok THEN Raise("JSONDecodeError")
                   ELSE IF ~HasKey(decoded.v, NameKey)
                        THEN Raise("ValueError")
                   ELSE Return(decoded.v)


(***************************************************************************)
(* The texts parse_tool_call is applied to: optional prose, the start      *)
(* marker (none, one or two of them), an optional code fence, the text of  *)
(* a JSON object with its last MaxCut or fewer tokens cut off, and a tail. *)
(***************************************************************************)
MaxCut == 2

StringValues ==
    { <<"x">>, <<"}">>, <<"{">>, <<"{", "}">>, <<"}", "{">> }

NameValues ==
    { JStr(cs) : cs \in StringValues } \cup { JNum(<<"1">>), JObj(<<>>) }

InputValues ==
    { JStr(<<>>), JStr(<<"}">>), JNum(<<"1">>), JObj(<<>>),
      JObj(<<Member(<<"a">>, JStr(<<"x">>))>>),
      JObj(<<Member(<<"a">>, JStr(<<"{">>))>>),
      JObj(<<Member(<<"a">>, JObj(<<Member(<<"b">>, JNum(<<"1">>))>>))>>) }

Objects ==
    { JObj(<<Member(NameKey, n)>>) : n \in NameValues }
    \cup { JObj(<<Member(NameKey, n), Member(InputKey, i)>>) :
             n \in NameValues, i \in InputValues }
    \cup { JObj(<<Member(InputKey, i), Member(NameKey, JStr(<<"x">>))>>) :
             i \in InputValues }
    \cup { JObj(<<>>), JObj(<<Member(InputKey, JObj(<<>>))>>) }

Prefixes == { <<>>, <<"o", "k", "\n">>, <<"{", "}", " ">> }
Fences == { <<>>, <<"\n", Fence, "\n">> }
Tails == { <<>>, <<"\n", Fence, "\n">>, <<" ", "}">> }
Markers == { <<>>, <<StartMarker>>, <<StartMarker, " ", StartMarker>> }

CutTail(s, n) == SubSeq(s, 1, Len(s) - n)

NoResult == [kind |-> "none", exc |-> "", data |-> JNone]


(***************************************************************************)
(* execute_tool (qwen_api.py) over the namespace of qwen_tools_lib.        *)
(* An attribute of the module is a tool function, another function of the  *)
(* library, or a value that cannot be called; every other name is absent.  *)
(***************************************************************************)
GetCwd == <<"g", "e", "t", "_", "c", "w", "d">>
ReadFile == <<"r", "e", "a", "d", "_", "f", "i", "l", "e">>
ListTools == <<"l", "i", "s", "t", "_", "t", "o", "o", "l", "s">>
DunderName == <<"_", "_", "n", "a", "m", "e", "_", "_">>
Nope == <<"n", "o", "p", "e">>
PathKey == <<"p", "a", "t", "h">>

\* the tools get_tools_dict advertises (two of them)
ToolNames == { GetCwd, ReadFile }

\* hasattr(qwen_tools_lib, name), for a name that is a str
HasAttr(name) == name \in ToolNames \cup { ListTools, DunderName }

\* callable(getattr(qwen_tools_lib, name))
IsCallable(name) == name \in ToolNames \cup { ListTools }

\* parameters a function must be given / may be given
RequiredParams(name) == IF name = ReadFile THEN { PathKey } ELSE {}
AcceptedParams(name) == IF name = ReadFile THEN { PathKey } ELSE {}

Keys(d) == { d.m[i].k : i \in 1..Len(d.m) }

\* mutant: tool(**tool_input) for every input, the empty string included
BindsMappingOnly(name, tool_input) ==
    /\ tool_input.t = "obj"
    /\ RequiredParams(name) \subseteq Keys(tool_input)
    /\ Keys(tool_input) \subseteq AcceptedParams(name)

\* whether tool() / tool(**tool_input) binds its arguments (else TypeError)
Binds(name, tool_input) ==
    IF tool_input = JStr(<<>>) THEN RequiredParams(name) = {}
    ELSE /\ tool_input.t = "obj"
         /\ RequiredParams(name) \subseteq Keys(tool_input)
         /\ Keys(tool_input) \subseteq AcceptedParams(name)

Returned(text) == [kind |-> "return", exc |-> "", text |-> text]
Raised(exc, text) == [kind |-> "raise", exc |-> exc, text |-> text]

ToolOutput(name) == <<"output of ">> \o name
ToolFailure(name) == <<"failure inside ">> \o name

\* the f-string of line 316 (the quote marks around the name are left out)
WrapError(name, text) == <<"Error executing tool ">> \o name \o <<": ">> \o text

\* execute_tool(tool_name, tool_input); body_ok says whether the code of the
\* tool returns (TRUE) or raises (FALSE) once it has been entered
execute_tool(tool_name, tool_input, body_ok) ==
    IF tool_name.t # "str"
        THEN Raised("TypeError", <<"attribute name must be string">>)
    ELSE IF ~HasAttr(tool_name.s)
        THEN Raised("ValueError", <<"Unknown tool: ">> \o tool_name.s)
    ELSE IF ~IsCallable(tool_name.s)
        THEN Raised("ValueError", <<"Unknown tool or uncallable tool: ">> \o tool_name.s)
    ELSE IF ~Binds(tool_name.s, tool_input)
        THEN Raised("ValueError", WrapError(tool_name.s, <<"TypeError">>))
    ELSE IF ~body_ok
        THEN Raised("ValueError", WrapError(tool_name.s, ToolFailure(tool_name.s)))
    ELSE Returned(ToolOutput(tool_name.s))

\* whether execute_tool enters a function of the library
Invokes(tool_name, tool_input) ==
    /\ tool_name.t = "str"
    /\ HasAttr(tool_name.s)
    /\ IsCallable(tool_name.s)
    /\ Binds(tool_name.s, tool_input)

(***************************************************************************)
(* inference_loop (qwen_api.py): the messages and events it produces.      *)
(***************************************************************************)
\* mutant: every message the loop appends is an assistant message
MsgOfAssistant(role, content) == [role |-> "assistant", content |-> content]

Msg(role, content) == [role |-> role, content |-> content]
Event(role, content, type) == [role |-> role, content |-> content, type |-> type]

\* mutant: a chunk event carries the first token of the chunk only
ChunkEventCut(content) ==
    Event("assistant", IF content = <<>> THEN <<>> ELSE <<Head(content)>>, "chunk")

ChunkEvent(content) == Event("assistant", content, "chunk")
DoneEvent == Event("assistant", <<>>, "done")
\* mutant: the outcome of a tool call is sent as one more chunk
ToolCallEventAsChunk(content) == Event("assistant", content, "chunk")

\* a tool_call event carries no "type" key
ToolCallEvent(content) == Event("tool_call", content, "")

ToolErrorMsg ==
    <<"Tool Call Error: Multiple tool calls found. Please only use one tool at a time.">>
ParseErrorMsg ==
    <<"Tool result: No valid tool call found. Please make sure tool request is valid JSON, and escape necessary characters. Try again with better-formatted JSON">>

\* line 182 and line 190
ToolResultMessage(tool_result) == <<"Tool result: ", Fence>> \o tool_result \o <<Fence>>
ToolErrorMessage(text) == <<"Tool execution error: ">> \o text

\* mutant: one form for results and errors alike
DispatchMessageUniform(r) == ToolResultMessage(r.text)

\* the message built from what execute_tool did (lines 176-195)
DispatchMessage(r) ==
    IF r.kind = "return" THEN ToolResultMessage(r.text)
    ELSE ToolErrorMessage(r.text)

\* line 149
Occurrences(text) == Count(text, StartMarker)


(***************************************************************************)
(* What the model provider can send: fragments without choices, without a  *)
(* delta or without content, and content chunks.  A content chunk is       *)
(* prose, the start marker, or the start marker with the text of a tool    *)
(* call after it.                                                          *)
(***************************************************************************)
MaxFragments == 2   \* fragments consumed by one loop invocation
MaxTurns == 2       \* model streams opened by one loop invocation

CallObjects ==
    { JObj(<<Member(NameKey, JStr(GetCwd)), Member(InputKey, JStr(<<>>))>>),
      JObj(<<Member(NameKey, JStr(GetCwd))>>),
      JObj(<<Member(NameKey, JStr(GetCwd)), Member(InputKey, JNum(<<"1">>))>>),
      JObj(<<Member(NameKey, JStr(ReadFile)), Member(InputKey, JObj(<<>>))>>),
      JObj(<<Member(NameKey, JStr(ReadFile)),
             Member(InputKey, JObj(<<Member(PathKey, JStr(<<"x">>))>>))>>),
      JObj(<<Member(NameKey, JStr(GetCwd)), Member(InputKey, JObj(<<>>))>>),
      JObj(<<Member(NameKey, JStr(ReadFile)), Member(InputKey, JStr(<<>>))>>),
      JObj(<<Member(NameKey, JStr(ListTools))>>),
      JObj(<<Member(NameKey, JStr(Nope))>>),
      JObj(<<Member(NameKey, JStr(DunderName))>>),
      JObj(<<Member(NameKey, JNum(<<"1">>))>>),
      JObj(<<Member(NameKey, JStr(<<"}">>))>>),
      JObj(<<>>) }

Contents ==
    { <<>>, <<"o", "k">>, <<StartMarker>> }
    \cup { <<StartMarker, "\n", Fence, "\n">> \o Serialize(o) \o <<"\n", Fence, "\n">> :
             o \in CallObjects }
    \cup { <<StartMarker>> \o CutTail(Serialize(JObj(<<Member(NameKey, JStr(GetCwd))>>)), 1) }

\* a fragment: has_choices, has_delta, and content (has_content FALSE: None)
Fragment(c, d, h, text) ==
    [has_choices |-> c, has_delta |-> d, has_content |-> h, content |-> text]

Fragments ==
    { Fragment(FALSE, FALSE, FALSE, <<>>), Fragment(TRUE, FALSE, FALSE, <<>>),
      Fragment(TRUE, TRUE, FALSE, <<>>) }
    \cup { Fragment(TRUE, TRUE, TRUE, text) : text \in Contents }

\* lines 129-132: whether the fragment carries a content chunk
CarriesContent(f) == f.has_choices /\ f.has_delta /\ f.has_content

SystemPrompt == <<"You are Qwen-Max, an advanced AI model.">>

\* format_messages: the system message goes in front of the inbound messages
format_messages(inbound) == <<Msg("system", SystemPrompt)>> \o inbound

Conversations == { <<>>, <<Msg("user", <<"h", "i">>)>> }

(***************************************************************************)
(* query_endpoint (qwen_api.py).  The body of a request is                 *)
(*   "not_json"           get_json raises                                  *)
(*   "not_object"         JSON that is no object: payload.get fails        *)
(*   "bad_temperature"    float(...) raises                                *)
(*   "bad_max_tokens"     int(...) raises                                  *)
(*   "messages_not_list"  messages.insert fails in format_messages         *)
(*   "object"             an object whose messages entry is a list: no     *)
(*                        statement of the try block raises, whatever the  *)
(*                        items of the list are                            *)
(***************************************************************************)
\* an item that is no message of a conversation: its role is unknown
BogusMessage == Msg("bogus", <<>>)

WellFormedMessage(m) == m.role \in { "system", "user", "assistant" }

MessageLists == Conversations \cup { <<BogusMessage>> }

RejectedKinds ==
    { "not_json", "not_object", "bad_temperature", "bad_max_tokens",
      "messages_not_list" }

Payloads ==
    { [kind |-> k, messages |-> <<>>] : k \in RejectedKinds }
    \cup { [kind |-> "object", messages |-> ms] : ms \in MessageLists }

\* whether a statement of the try block (lines 72-91) raises
EndpointRaises(body) == body.kind \in RejectedKinds

\* the request is not a well-formed chat request
Malformed(body) ==
    \/ body.kind # "object"
    \/ \E i \in 1..Len(body.messages) : ~WellFormedMessage(body.messages[i])

ErrorResponse == [status |-> 400, body |-> "error"]
StreamResponse == [status |-> 200, body |-> "stream"]


(***************************************************************************)
(* inference_loop as a generator: one action per stretch of code between   *)
(* two points where it is suspended (a yield) or decides where to go.      *)
(*   pc: "open"         top of the while loop (line 98)                    *)
(*       "stream"       inside the for loop over the stream (line 127)     *)
(*       "done_yield"   suspended at the yield of line 146                 *)
(*       "multi_yield"  suspended at the yield of line 153                 *)
(*       "error_yield"  suspended at the yield of line 165                 *)
(*       "parsed"       parse_tool_call has returned (line 167)            *)
(*       "result_yield" suspended at the yield of line 186 or 195          *)
(*       "terminated"   after the break of line 199                        *)
(*       "raised"       an exception has left the generator                *)
(* Under SpecLoop the generator is created by query_endpoint:              *)
(*       "request"      the request has arrived (line 71)                  *)
(*       "rejected"     query_endpoint returned the error (line 94)        *)
(***************************************************************************)
NoOutcome == [kind |-> "none", exc |-> "", text |-> <<>>]

LoopInit(inbound) ==
    /\ pc = "open"
    /\ messages = format_messages(inbound)
    /\ assistant_response = <<>>
    /\ events = <<>>
    /\ fragments = 0
    /\ turn = 0
    /\ turn_calls = <<>>
    /\ turn_events = <<>>
    /\ tool_call_data = JNone
    /\ outcome = NoOutcome
    /\ slept = 0

\* the state in which a request has arrived at query_endpoint
RequestInit(body) ==
    /\ pc = "request"
    /\ payload = body
    /\ http = [status |-> 0, body |-> "none"]
    /\ messages = <<>>
    /\ assistant_response = <<>>
    /\ events = <<>>
    /\ fragments = 0
    /\ turn = 0
    /\ turn_calls = <<>>
    /\ turn_events = <<>>
    /\ tool_call_data = JNone
    /\ outcome = NoOutcome
    /\ slept = 0

\* lines 70-94: the error object with status 400 when a statement of the
\* try block raises, else the streaming response over inference_loop
QueryEndpoint ==
    /\ pc = "request"
    /\ IF EndpointRaises(payload)
       THEN /\ http' = ErrorResponse
            /\ pc' = "rejected"
            /\ UNCHANGED messages
       ELSE /\ http' = StreamResponse
            /\ messages' = format_messages(payload.messages)
            /\ pc' = "open"
    /\ UNCHANGED <<assistant_response, events, fragments, turn, turn_calls,
                   turn_events, tool_call_data, outcome, payload>>
    /\ UNCHANGED slept
    /\ UNCHANGED <<parseVars, logVars, evVars>>

\* RATE_LIMIT_PAUSE_SECS (line 45) as configured for the runs
delay_secs == 1

\* mutant: no pause before the first stream of a request
PauseAfterFirst(streams) == IF streams = 0 THEN 0 ELSE delay_secs

\* line 100: the seconds slept at the top of the loop, streams being the
\* number of streams opened before
Pause(streams) == delay_secs

\* lines 100-113: the pause, then the model service refuses a conversation
\* holding an item that is no message, and the exception leaves the
\* generator
OpenStreamFails ==
    /\ pc = "open"
    /\ turn < MaxTurns
    /\ \E i \in 1..Len(messages) : ~WellFormedMessage(messages[i])
    /\ pc' = "raised"
    /\ turn' = turn + 1
    /\ UNCHANGED <<messages, assistant_response, events, fragments,
                   turn_calls, turn_events, tool_call_data, outcome>>
    /\ slept' = slept + Pause(turn)
    /\ UNCHANGED <<parseVars, logVars, evVars, reqVars>>

Yield(e) ==
    /\ events' = Append(events, e)
    /\ turn_events' = Append(turn_events, e)

\* mutant: any number of start markers is taken for one tool call
BranchAnyMarker(occurrences) ==
    IF occurrences >= 1 THEN "one" ELSE "none"

\* mutant: a text without start marker is parsed instead of ending the loop
BranchNoBreak(occurrences) ==
    IF occurrences > 1 THEN "multiple" ELSE "one"

\* lines 150, 157, 197: the branch taken for a count of start markers
Branch(occurrences) ==
    IF occurrences > 1 THEN "multiple"
    ELSE IF occurrences = 1 THEN "one"
    ELSE "none"

\* line 161, a bare except, and line 188, except Exception: both catch
\* every exception class parse_tool_call and execute_tool can raise
\* mutant: except ValueError in place of the bare except
ParseCatchesValueError(exc) == exc \in { "ValueError", "JSONDecodeError" }

ParseCatches(exc) == exc \in { "ValueError", "JSONDecodeError", "IndexError", "TypeError" }
\* mutant: except ValueError in place of except Exception
DispatchCatchesValueError(exc) == exc = "ValueError"

DispatchCatches(exc) == exc \in { "ValueError", "JSONDecodeError", "IndexError", "TypeError" }

\* lines 98-124: the pause, the new stream, the empty accumulator
OpenStream ==
    /\ pc = "open"
    /\ turn < MaxTurns
    /\ pc' = "stream"
    /\ turn' = turn + 1
    /\ assistant_response' = <<>>
    /\ turn_calls' = <<>>
    /\ turn_events' = <<>>
    /\ UNCHANGED <<messages, events, fragments, tool_call_data, outcome>>
    /\ slept' = slept + Pause(turn)
    /\ UNCHANGED <<parseVars, logVars, evVars, reqVars>>

\* lines 127-132: a fragment without choices, delta or content
SkipFragment(f) ==
    /\ pc = "stream"
    /\ fragments < MaxFragments
    /\ ~CarriesContent(f)
    /\ fragments' = fragments + 1
    /\ UNCHANGED <<pc, messages, assistant_response, events, turn, turn_calls,
                   turn_events, tool_call_data, outcome>>
    /\ UNCHANGED slept
    /\ UNCHANGED <<parseVars, logVars, evVars, reqVars>>

\* lines 132-140: a content chunk is accumulated and yielded
ReceiveChunk(f) ==
    /\ pc = "stream"
    /\ fragments < MaxFragments
    /\ CarriesContent(f)
    /\ assistant_response' = assistant_response \o f.content
    /\ Yield(ChunkEvent(f.content))
    /\ fragments' = fragments + 1
    /\ UNCHANGED <<pc, messages, turn, turn_calls, tool_call_data, outcome>>
    /\ UNCHANGED slept
    /\ UNCHANGED <<parseVars, logVars, evVars, reqVars>>

\* mutant: the assistant message takes the place of the last message
EndStreamOverwrites ==
    /\ pc = "stream"
    /\ messages' = [messages EXCEPT ![Len(messages)] =
                                        Msg("assistant", assistant_response)]
    /\ Yield(DoneEvent)
    /\ pc' = "done_yield"
    /\ UNCHANGED <<assistant_response, fragments, turn, turn_calls,
                   tool_call_data, outcome>>
    /\ UNCHANGED slept
    /\ UNCHANGED <<parseVars, logVars, evVars, reqVars>>

\* lines 142-146: the stream is exhausted
EndStream ==
    /\ pc = "stream"
    /\ messages' = Append(messages, Msg("assistant", assistant_response))
    /\ Yield(DoneEvent)
    /\ pc' = "done_yield"
    /\ UNCHANGED <<assistant_response, fragments, turn, turn_calls,
                   tool_call_data, outcome>>
    /\ UNCHANGED slept
    /\ UNCHANGED <<parseVars, logVars, evVars, reqVars>>

\* lines 149-153
MultipleCalls ==
    /\ pc = "done_yield"
    /\ Branch(Occurrences(assistant_response)) = "multiple"
    /\ Yield(ToolCallEvent(ToolErrorMsg))
    /\ pc' = "multi_yield"
    /\ UNCHANGED <<messages, assistant_response, fragments, turn, turn_calls,
                   tool_call_data, outcome>>
    /\ UNCHANGED slept
    /\ UNCHANGED <<parseVars, logVars, evVars, reqVars>>

\* mutant: the violation ends the loop, no message is appended
MultipleResumeBreaks ==
    /\ pc = "multi_yield"
    /\ pc' = "terminated"
    /\ UNCHANGED <<messages, assistant_response, events, fragments, turn,
                   turn_calls, turn_events, tool_call_data, outcome>>
    /\ UNCHANGED slept
    /\ UNCHANGED <<parseVars, logVars, evVars, reqVars>>

\* lines 155-156, then back to line 98
MultipleResume ==
    /\ pc = "multi_yield"
    /\ messages' = Append(messages, Msg("user", ToolErrorMsg))
    /\ pc' = "open"
    /\ UNCHANGED <<assistant_response, events, fragments, turn, turn_calls,
                   turn_events, tool_call_data, outcome>>
    /\ UNCHANGED slept
    /\ UNCHANGED <<parseVars, logVars, evVars, reqVars>>

\* lines 157-160 and 167: parse_tool_call returns a dict
ParseReturns ==
    /\ pc = "done_yield"
    /\ Branch(Occurrences(assistant_response)) = "one"
    /\ LET r == parse_tool_call(assistant_response)
       IN /\ r.kind = "return"
          /\ tool_call_data' = r.data
    /\ turn_calls' = Append(turn_calls, "parse_tool_call")
    /\ pc' = "parsed"
    /\ UNCHANGED <<messages, assistant_response, events, fragments, turn,
                   turn_events, outcome>>
    /\ UNCHANGED slept
    /\ UNCHANGED <<parseVars, logVars, evVars, reqVars>>

\* lines 157-165: parse_tool_call raises
ParseRaises ==
    /\ pc = "done_yield"
    /\ Branch(Occurrences(assistant_response)) = "one"
    /\ LET r == parse_tool_call(assistant_response)
       IN /\ r.kind = "raise"
          /\ IF ParseCatches(r.exc)
             THEN /\ messages' = Append(messages, Msg("user", ParseErrorMsg))
                  /\ Yield(ToolCallEvent(ParseErrorMsg))
                  /\ pc' = "error_yield"
             ELSE /\ pc' = "raised"
                  /\ UNCHANGED <<messages, events, turn_events>>
    /\ tool_call_data' = JNone
    /\ turn_calls' = Append(turn_calls, "parse_tool_call")
    /\ UNCHANGED <<assistant_response, fragments, turn, outcome>>
    /\ UNCHANGED slept
    /\ UNCHANGED <<parseVars, logVars, evVars, reqVars>>

\* mutant: a parse failure ends the loop
ErrorResumeBreaks ==
    /\ pc = "error_yield"
    /\ pc' = "terminated"
    /\ UNCHANGED <<messages, assistant_response, events, fragments, turn,
                   turn_calls, turn_events, tool_call_data, outcome>>
    /\ UNCHANGED slept
    /\ UNCHANGED <<parseVars, logVars, evVars, reqVars>>

\* line 167 with tool_call_data None, then back to line 98
ErrorResume ==
    /\ pc = "error_yield"
    /\ pc' = "open"
    /\ UNCHANGED <<messages, assistant_response, events, fragments, turn,
                   turn_calls, turn_events, tool_call_data, outcome>>
    /\ UNCHANGED slept
    /\ UNCHANGED <<parseVars, logVars, evVars, reqVars>>

\* lines 167-195: the tool is executed and its result or error reported
Dispatch ==
    /\ pc = "parsed"
    /\ \E body_ok \in BOOLEAN :
        LET tool_name == GetKey(tool_call_data, NameKey)
            tool_input == GetOr(tool_call_data, InputKey, JObj(<<>>))
            r == execute_tool(tool_name, tool_input, body_ok)
        IN /\ outcome' = r
           /\ IF r.kind = "return" \/ DispatchCatches(r.exc)
              THEN /\ messages' = Append(messages, Msg("user", DispatchMessage(r)))
                   /\ Yield(ToolCallEvent(DispatchMessage(r)))
                   /\ pc' = "result_yield"
              ELSE /\ pc' = "raised"
                   /\ UNCHANGED <<messages, events, turn_events>>
    /\ turn_calls' = Append(turn_calls, "execute_tool")
    /\ UNCHANGED <<assistant_response, fragments, turn, tool_call_data>>
    /\ UNCHANGED slept
    /\ UNCHANGED <<parseVars, logVars, evVars, reqVars>>

\* after the yield of line 186 or 195, back to line 98
ResultResume ==
    /\ pc = "result_yield"
    /\ pc' = "open"
    /\ UNCHANGED <<messages, assistant_response, events, fragments, turn,
                   turn_calls, turn_events, tool_call_data, outcome>>
    /\ UNCHANGED slept
    /\ UNCHANGED <<parseVars, logVars, evVars, reqVars>>

\* lines 197-199
NoCall ==
    /\ pc = "done_yield"
    /\ Branch(Occurrences(assistant_response)) = "none"
    /\ pc' = "terminated"
    /\ UNCHANGED <<messages, assistant_response, events, fragments, turn,
                   turn_calls, turn_events, tool_call_data, outcome>>
    /\ UNCHANGED slept
    /\ UNCHANGED <<parseVars, logVars, evVars, reqVars>>

LoopNext ==
    \/ QueryEndpoint
    \/ OpenStream
    \/ OpenStreamFails
    \/ \E f \in Fragments : SkipFragment(f)
    \/ \E f \in Fragments : ReceiveChunk(f)
    \/ EndStream
    \/ MultipleCalls
    \/ MultipleResume
    \/ ParseReturns
    \/ ParseRaises
    \/ ErrorResume
    \/ Dispatch
    \/ ResultResume
    \/ NoCall


(***************************************************************************)
(* StreamingLogger (streaming_logger.py), enabled (the default of line 23).*)
(* Threads: the background flush worker and the client threads, which call *)
(* append_chunk and complete_session.  A with self.lock block is two       *)
(* steps: the acquisition, then the body together with the release.        *)
(* Everything outside a with block is one step per access to shared state. *)
(*                                                                         *)
(* files is the disk: every file ever created, in creation order.  A file  *)
(* is [sid, dir, stamp, content, mtime]; dir is "active" (the path         *)
(* active/<sid>.log), "completed" (completed/<sid>_<stamp>.log), "cleaned" *)
(* (completed/<sid>_cleanup_<stamp>.log) or "replaced" (a file another     *)
(* rename has overwritten).  A file handle is the position of its file in  *)
(* files: it follows the file when the file is renamed.                    *)
(***************************************************************************)
flush_interval == 2   \* line 24, the default
StartTime == 2        \* the clock reading when the logger is constructed
MaxTicks == 4         \* seconds the clock advances
MaxCalls == 3         \* calls the client threads make in all

Worker == "worker"
Clients == { "t1", "t2" }
Threads == Clients \cup { Worker }
SessionIds == { "s1", "s2" }
\* the content the n-th call of a client passes: a text of one or two
\* tokens that no other call passes, so that a chunk lost, repeated or out
\* of order shows in what is written
ChunkOf(n) == [i \in 1..(1 + (n % 2)) |-> n]

NoSession == "none"
\* the local variables of a thread: the arguments of the call it is in, the
\* current_time of _flush_session, the session_ids still to visit and the
\* time at which the sleep of the worker ends
Local(sid, force, current_time, ids, content, wake) ==
    [sid |-> sid, force |-> force, current_time |-> current_time, ids |-> ids,
     content |-> content, wake |-> wake]
NoLocal == Local(NoSession, FALSE, 0, {}, <<>>, 0)

EmptyMap == [s \in {} |-> <<>>]
\* d[k] = v
Put(d, k, v) == [x \in DOMAIN d \cup {k} |-> IF x = k THEN v ELSE d[x]]
\* del d[k]
Del(d, k) == [x \in DOMAIN d \ {k} |-> d[x]]
\* d[k] of a defaultdict, without the insertion
Lookup(d, k, default) == IF k \in DOMAIN d THEN d[k] ELSE default

LogInit ==
    /\ session_buffers = EmptyMap
    /\ session_files = EmptyMap
    /\ last_flush = EmptyMap
    /\ lock = "free"
    /\ files = <<>>
    /\ now = StartTime
    /\ tpc = [t \in Threads |-> IF t = Worker THEN "sleep" ELSE "idle"]
    /\ tlocal = [t \in Threads |->
                    IF t = Worker
                    THEN Local(NoSession, FALSE, 0, {}, <<>>, StartTime + flush_interval)
                    ELSE NoLocal]
    /\ calls = 0
    /\ appended = [s \in SessionIds |-> <<>>]
    /\ oplog = [s \in SessionIds |-> <<>>]

\* mutant: one log path for every session
ActiveFileShared(sid) ==
    IF \E i \in 1..Len(files) : files[i].dir = "active"
    THEN CHOOSE i \in 1..Len(files) : files[i].dir = "active"
    ELSE 0

\* the position in files of the file at active/<sid>.log, or 0
ActiveFile(sid) ==
    IF \E i \in 1..Len(files) : files[i].sid = sid /\ files[i].dir = "active"
    THEN CHOOSE i \in 1..Len(files) : files[i].sid = sid /\ files[i].dir = "active"
    ELSE 0

NewFile(sid) ==
    [sid |-> sid, dir |-> "active", stamp |-> 0, content |-> <<>>, mtime |-> now]

\* open(active_path, "a"): the disk afterwards
OpenAppend(sid) ==
    IF ActiveFile(sid) # 0 THEN files ELSE Append(files, NewFile(sid))

\* the handle open(active_path, "a") returns
OpenedHandle(sid) ==
    IF ActiveFile(sid) # 0 THEN ActiveFile(sid) ELSE Len(files) + 1

\* file.write(content); file.flush() on the file behind handle h
WriteFile(disk, h, content) ==
    [disk EXCEPT ![h].content = @ \o content, ![h].mtime = now]

\* line 79
JoinChunks(chunks) == Concat(chunks)

\* mutant: os.remove(active_path) in place of the rename
RemoveActive(disk, a, stamp) ==
    [i \in 1..Len(disk) |->
        IF i = a THEN [disk[i] EXCEPT !.dir = "replaced"] ELSE disk[i]]

\* os.rename(active_path, completed/<sid>_<stamp>.log): a file already at the
\* destination is replaced
RenameCompleted(disk, a, stamp) ==
    [i \in 1..Len(disk) |->
        IF i = a THEN [disk[i] EXCEPT !.dir = "completed", !.stamp = stamp]
        ELSE IF /\ disk[i].dir = "completed"
                /\ disk[i].sid = disk[a].sid
                /\ disk[i].stamp = stamp
             THEN [disk[i] EXCEPT !.dir = "replaced"]
        ELSE disk[i]]

Log(sid, what) == oplog' = [oplog EXCEPT ![sid] = Append(@, what)]


\* mutant: the interval check finds every unforced flush too early
SkipsFlushUnlessForced(force, current_time, last) == ~force

\* line 69: the flush is not due yet
SkipsFlush(force, current_time, last) ==
    ~force /\ current_time - last < flush_interval

\* mutant: the buffer is not cleared after the write
KeptBuffer(chunks) == chunks

\* line 84: the buffer after a flush
ClearedBuffer(chunks) == <<>>

\* line 111: complete_session has nothing to do
CompleteReturnsEarly(sid) == sid \notin DOMAIN session_files

\* where a thread goes when _flush_session returns: the worker to its for
\* loop (line 98), a client to the with block of complete_session (line 117)
AfterFlush(t) == IF t = Worker THEN "loop" ELSE "complete_acquire"

Goto(t, where) == tpc' = [tpc EXCEPT ![t] = where]

\* _flush_session returns: its locals are gone; the worker is left with the
\* session_ids still to visit, a client with the session_id of
\* complete_session
Returned_flush(t) ==
    IF t = Worker
    THEN Local(NoSession, FALSE, 0, tlocal[t].ids, <<>>, tlocal[t].wake)
    ELSE Local(tlocal[t].sid, FALSE, 0, {}, <<>>, 0)

\* lines 90-95: the sleep is over and the worker takes the lock
WorkerAcquire ==
    /\ tpc[Worker] = "sleep"
    /\ now >= tlocal[Worker].wake
    /\ lock = "free"
    /\ lock' = Worker
    /\ Goto(Worker, "snapshot_locked")
    /\ UNCHANGED <<session_buffers, session_files, last_flush, files, now,
                   tlocal, calls, appended, oplog>>
    /\ UNCHANGED <<parseVars, loopVars, evVars, reqVars>>

\* line 96 and the release
WorkerSnapshot ==
    /\ tpc[Worker] = "snapshot_locked"
    /\ lock = Worker
    /\ tlocal' = [tlocal EXCEPT ![Worker].ids = DOMAIN session_buffers]
    /\ lock' = "free"
    /\ Goto(Worker, "loop")
    /\ UNCHANGED <<session_buffers, session_files, last_flush, files, now,
                   calls, appended, oplog>>
    /\ UNCHANGED <<parseVars, loopVars, evVars, reqVars>>

\* lines 98-99: the next session_id of the snapshot
WorkerPick ==
    /\ tpc[Worker] = "loop"
    /\ \E sid \in tlocal[Worker].ids :
        tlocal' = [tlocal EXCEPT ![Worker].sid = sid,
                                 ![Worker].force = FALSE,
                                 ![Worker].ids = @ \ {sid}]
    /\ Goto(Worker, "flush_time")
    /\ UNCHANGED <<session_buffers, session_files, last_flush, lock, files, now,
                   calls, appended, oplog>>
    /\ UNCHANGED <<parseVars, loopVars, evVars, reqVars>>

\* the for loop is over: back to line 90
WorkerSleep ==
    /\ tpc[Worker] = "loop"
    /\ tlocal[Worker].ids = {}
    /\ tlocal' = [tlocal EXCEPT ![Worker].wake = now + flush_interval,
                                ![Worker].sid = NoSession]
    /\ Goto(Worker, "sleep")
    /\ UNCHANGED <<session_buffers, session_files, last_flush, lock, files, now,
                   calls, appended, oplog>>
    /\ UNCHANGED <<parseVars, loopVars, evVars, reqVars>>

\* lines 66-70 without force: time.time(), and last_flush[session_id] read
\* outside the lock (a defaultdict: the read inserts a missing key)
FlushTime(t) ==
    /\ tpc[t] = "flush_time"
    /\ LET sid == tlocal[t].sid
       IN /\ last_flush' = IF sid \in DOMAIN last_flush THEN last_flush
                           ELSE Put(last_flush, sid, 0)
          /\ IF SkipsFlush(tlocal[t].force, now, Lookup(last_flush, sid, 0))
             THEN /\ Goto(t, AfterFlush(t))
                  /\ tlocal' = [tlocal EXCEPT ![t] = Returned_flush(t)]
             ELSE /\ Goto(t, "flush_test")
                  /\ tlocal' = [tlocal EXCEPT ![t].current_time = now]
    /\ UNCHANGED <<session_buffers, session_files, lock, files, now, calls,
                   appended, oplog>>
    /\ UNCHANGED <<parseVars, loopVars, evVars, reqVars>>

\* line 72: the test made outside the lock
FlushTest(t) ==
    /\ tpc[t] = "flush_test"
    /\ LET sid == tlocal[t].sid
       IN IF sid \in DOMAIN session_buffers /\ session_buffers[sid] # <<>>
          THEN Goto(t, "flush_acquire") /\ UNCHANGED tlocal
          ELSE /\ Goto(t, AfterFlush(t))
               /\ tlocal' = [tlocal EXCEPT ![t] = Returned_flush(t)]
    /\ UNCHANGED <<session_buffers, session_files, last_flush, lock, files, now,
                   calls, appended, oplog>>
    /\ UNCHANGED <<parseVars, loopVars, evVars, reqVars>>

\* line 73
FlushAcquire(t) ==
    /\ tpc[t] = "flush_acquire"
    /\ lock = "free"
    /\ lock' = t
    /\ Goto(t, "flush_locked")
    /\ UNCHANGED <<session_buffers, session_files, last_flush, files, now,
                   tlocal, calls, appended, oplog>>
    /\ UNCHANGED <<parseVars, loopVars, evVars, reqVars>>

\* lines 74-85 with chunks to write
FlushWrites(t) ==
    /\ tpc[t] = "flush_locked"
    /\ lock = t
    /\ LET sid == tlocal[t].sid
           chunks == Lookup(session_buffers, sid, <<>>)
           opened == sid \in DOMAIN session_files
           disk == IF opened THEN files ELSE OpenAppend(sid)
           handle == IF opened THEN session_files[sid] ELSE OpenedHandle(sid)
       IN /\ chunks # <<>>
          /\ files' = WriteFile(disk, handle, JoinChunks(chunks))
          /\ session_files' = Put(session_files, sid, handle)
          /\ session_buffers' = Put(session_buffers, sid, ClearedBuffer(chunks))
          /\ last_flush' = Put(last_flush, sid, tlocal[t].current_time)
          /\ Log(sid, "flush")
    /\ lock' = "free"
    /\ Goto(t, AfterFlush(t))
    /\ tlocal' = [tlocal EXCEPT ![t] = Returned_flush(t)]
    /\ UNCHANGED <<now, calls, appended>>
    /\ UNCHANGED <<parseVars, loopVars, evVars, reqVars>>

\* lines 74-75 with nothing left to write (the read of line 74 inserts a
\* missing key)
FlushFindsNothing(t) ==
    /\ tpc[t] = "flush_locked"
    /\ lock = t
    /\ LET sid == tlocal[t].sid
       IN /\ Lookup(session_buffers, sid, <<>>) = <<>>
          /\ session_buffers' = Put(session_buffers, sid, <<>>)
    /\ lock' = "free"
    /\ Goto(t, AfterFlush(t))
    /\ tlocal' = [tlocal EXCEPT ![t] = Returned_flush(t)]
    /\ UNCHANGED <<session_files, last_flush, files, now, calls, appended,
                   oplog>>
    /\ UNCHANGED <<parseVars, loopVars, evVars, reqVars>>

\* append_chunk, line 103: nothing to do for an empty id or an empty content
AppendIgnored(t) ==
    /\ tpc[t] = "idle"
    /\ calls < MaxCalls
    /\ \E sid \in SessionIds \cup {""}, content \in {ChunkOf(calls + 1), <<>>} :
        sid = "" \/ content = <<>>
    /\ calls' = calls + 1
    /\ UNCHANGED <<session_buffers, session_files, last_flush, lock, files, now,
                   tpc, tlocal, appended, oplog>>
    /\ UNCHANGED <<parseVars, loopVars, evVars, reqVars>>

\* append_chunk, lines 103-106: the call passes the test of its arguments
\* and takes the lock
AppendAcquire(t) ==
    /\ tpc[t] = "idle"
    /\ calls < MaxCalls
    /\ lock = "free"
    /\ \E sid \in SessionIds :
        tlocal' = [tlocal EXCEPT ![t] =
                      Local(sid, FALSE, 0, {}, ChunkOf(calls + 1), 0)]
    /\ calls' = calls + 1
    /\ lock' = t
    /\ Goto(t, "append_locked")
    /\ UNCHANGED <<session_buffers, session_files, last_flush, files, now,
                   appended, oplog>>
    /\ UNCHANGED <<parseVars, loopVars, evVars, reqVars>>

\* mutant: the append also records the time in last_flush
AppendBodyStamps(t) ==
    /\ tpc[t] = "append_locked"
    /\ lock = t
    /\ LET sid == tlocal[t].sid
           content == tlocal[t].content
       IN /\ session_buffers' =
                Put(session_buffers, sid,
                    Append(Lookup(session_buffers, sid, <<>>), content))
          /\ last_flush' = Put(last_flush, sid, now)
          /\ appended' = [appended EXCEPT ![sid] = Append(@, content)]
          /\ Log(sid, "append")
    /\ lock' = "free"
    /\ Goto(t, "idle")
    /\ tlocal' = [tlocal EXCEPT ![t] = NoLocal]
    /\ UNCHANGED <<session_files, files, now, calls>>
    /\ UNCHANGED <<parseVars, loopVars, evVars, reqVars>>

\* line 107 and the release
AppendBody(t) ==
    /\ tpc[t] = "append_locked"
    /\ lock = t
    /\ LET sid == tlocal[t].sid
           content == tlocal[t].content
       IN /\ session_buffers' =
                Put(session_buffers, sid,
                    Append(Lookup(session_buffers, sid, <<>>), content))
          /\ appended' = [appended EXCEPT ![sid] = Append(@, content)]
          /\ Log(sid, "append")
    /\ lock' = "free"
    /\ Goto(t, "idle")
    /\ tlocal' = [tlocal EXCEPT ![t] = NoLocal]
    /\ UNCHANGED <<session_files, last_flush, files, now, calls>>
    /\ UNCHANGED <<parseVars, loopVars, evVars, reqVars>>

\* complete_session, lines 111-112: the session has no open file
CompleteNoop(t) ==
    /\ tpc[t] = "idle"
    /\ calls < MaxCalls
    /\ \E sid \in SessionIds :
        /\ CompleteReturnsEarly(sid)
        /\ Log(sid, "complete_noop")
    /\ calls' = calls + 1
    /\ UNCHANGED <<session_buffers, session_files, last_flush, lock, files, now,
                   tpc, tlocal, appended>>
    /\ UNCHANGED <<parseVars, loopVars, evVars, reqVars>>

\* complete_session, lines 111-115 and 66-70 with force: the final flush
\* starts
CompleteCall(t) ==
    /\ tpc[t] = "idle"
    /\ calls < MaxCalls
    /\ \E sid \in SessionIds :
        /\ ~CompleteReturnsEarly(sid)
        /\ tlocal' = [tlocal EXCEPT ![t] = Local(sid, TRUE, now, {}, <<>>, 0)]
    /\ calls' = calls + 1
    /\ Goto(t, "flush_test")
    /\ UNCHANGED <<session_buffers, session_files, last_flush, lock, files, now,
                   appended, oplog>>
    /\ UNCHANGED <<parseVars, loopVars, evVars, reqVars>>

\* line 117
CompleteAcquire(t) ==
    /\ tpc[t] = "complete_acquire"
    /\ lock = "free"
    /\ lock' = t
    /\ Goto(t, "complete_locked")
    /\ UNCHANGED <<session_buffers, session_files, last_flush, files, now,
                   tlocal, calls, appended, oplog>>
    /\ UNCHANGED <<parseVars, loopVars, evVars, reqVars>>

\* lines 118-143 and the release; os.rename succeeds or raises
CompleteBody(t) ==
    /\ tpc[t] = "complete_locked"
    /\ lock = t
    /\ LET sid == tlocal[t].sid
           active == ActiveFile(sid)
       IN /\ session_files' = Del(session_files, sid)
          /\ \E rename_ok \in BOOLEAN :
                IF active # 0 /\ rename_ok
                THEN /\ files' = RenameCompleted(files, active, now)
                     /\ Log(sid, "complete")
                ELSE /\ files' = files
                     /\ Log(sid, IF active = 0 THEN "complete" ELSE "complete_unmoved")
          /\ session_buffers' = Del(session_buffers, sid)
          /\ last_flush' = Del(last_flush, sid)
    /\ lock' = "free"
    /\ Goto(t, "idle")
    /\ tlocal' = [tlocal EXCEPT ![t] = NoLocal]
    /\ UNCHANGED <<now, calls, appended>>
    /\ UNCHANGED <<parseVars, loopVars, evVars, reqVars>>

\* what a call of _flush_session that raises leaves behind it: nothing
\* catches the exception in _flush_session, in _flush_worker (the thread
\* ends) or in complete_session (line 115 is outside its try block)
RaisedFrom(t) == IF t = Worker THEN "dead" ELSE "idle"

\* mutant: the exception leaves the call with the lock still held
FlushFailsLocked(t) ==
    /\ tpc[t] = "flush_locked"
    /\ lock = t
    /\ LET sid == tlocal[t].sid
           chunks == Lookup(session_buffers, sid, <<>>)
           opened == sid \in DOMAIN session_files
       IN /\ chunks # <<>>
          /\ \E failing \in { "open", "write" } :
                IF failing = "open"
                THEN /\ ~opened
                     /\ UNCHANGED <<files, session_files>>
                ELSE /\ files' = IF opened THEN files ELSE OpenAppend(sid)
                     /\ session_files' =
                            IF opened THEN session_files
                            ELSE Put(session_files, sid, OpenedHandle(sid))
          /\ IF t = Worker THEN UNCHANGED oplog ELSE Log(sid, "complete_raised")
    /\ lock' = lock
    /\ Goto(t, RaisedFrom(t))
    /\ tlocal' = [tlocal EXCEPT ![t] = NoLocal]
    /\ UNCHANGED <<session_buffers, last_flush, now, calls, appended>>
    /\ UNCHANGED <<parseVars, loopVars, evVars, reqVars>>

\* lines 74-81 with chunks to write, and open (line 59) or write/flush
\* (lines 80-81) raising: the with statement releases the lock, the buffer
\* and last_flush keep their values, and the exception leaves the call
FlushFails(t) ==
    /\ tpc[t] = "flush_locked"
    /\ lock = t
    /\ LET sid == tlocal[t].sid
           chunks == Lookup(session_buffers, sid, <<>>)
           opened == sid \in DOMAIN session_files
       IN /\ chunks # <<>>
          /\ \E failing \in { "open", "write" } :
                IF failing = "open"
                THEN /\ ~opened
                     /\ UNCHANGED <<files, session_files>>
                ELSE /\ files' = IF opened THEN files ELSE OpenAppend(sid)
                     /\ session_files' =
                            IF opened THEN session_files
                            ELSE Put(session_files, sid, OpenedHandle(sid))
          /\ IF t = Worker THEN UNCHANGED oplog ELSE Log(sid, "complete_raised")
    /\ lock' = "free"
    /\ Goto(t, RaisedFrom(t))
    /\ tlocal' = [tlocal EXCEPT ![t] = NoLocal]
    /\ UNCHANGED <<session_buffers, last_flush, now, calls, appended>>
    /\ UNCHANGED <<parseVars, loopVars, evVars, reqVars>>

\* max_age_hours of cleanup_old_sessions: none, and the default of line 145
MaxAgeHours == { 0, 24 }

\* line 161: os.rename(active/<sid>.log, completed/<sid>_cleanup_<stamp>.log)
\* for the files in moved
RenameCleaned(disk, moved, stamp) ==
    [i \in 1..Len(disk) |->
        IF i \in moved THEN [disk[i] EXCEPT !.dir = "cleaned", !.stamp = stamp]
        ELSE IF /\ disk[i].dir = "cleaned"
                /\ disk[i].stamp = stamp
                /\ \E j \in moved : disk[j].sid = disk[i].sid
             THEN [disk[i] EXCEPT !.dir = "replaced"]
        ELSE disk[i]]

\* mutant: the files of sessions that still have an open handle are left
StaleFilesUntracked(cutoff_time) ==
    { i \in 1..Len(files) :
        /\ files[i].dir = "active"
        /\ files[i].mtime < cutoff_time
        /\ files[i].sid \notin DOMAIN session_files }

\* line 156: the files of the active directory older than the cutoff
StaleFiles(cutoff_time) ==
    { i \in 1..Len(files) :
        files[i].dir = "active" /\ files[i].mtime < cutoff_time }

\* cleanup_old_sessions, lines 145-150: the call computes cutoff_time, kept
\* in the current_time field of its locals
CleanupCall(t) ==
    /\ tpc[t] = "idle"
    /\ calls < MaxCalls
    /\ \E max_age_hours \in MaxAgeHours :
        tlocal' = [tlocal EXCEPT ![t] =
                      Local(NoSession, FALSE, now - (max_age_hours * 3600),
                            {}, <<>>, 0)]
    /\ calls' = calls + 1
    /\ Goto(t, "cleanup")
    /\ UNCHANGED <<session_buffers, session_files, last_flush, lock, files, now,
                   appended, oplog>>
    /\ UNCHANGED <<parseVars, loopVars, evVars, reqVars>>

\* cleanup_old_sessions, lines 152-164, which takes no lock and looks at no
\* open handle; the loop is taken as one step.  os.listdir gives the files
\* in any order and an os.rename that raises ends the loop (line 163), so
\* any part of the stale files may have been moved when the call returns.
\* The history of a session gets "cleanup" when its file was moved and
\* "cleanup_failed" when its stale file was left behind by a failed pass.
CleanupOldSessions(t) ==
    /\ tpc[t] = "cleanup"
    /\ LET cutoff_time == tlocal[t].current_time
       IN \E moved \in SUBSET StaleFiles(cutoff_time) :
              /\ files' = RenameCleaned(files, moved, now)
              /\ oplog' = [s \in SessionIds |->
                              IF \E i \in moved : files[i].sid = s
                              THEN Append(oplog[s], "cleanup")
                              ELSE IF \E i \in StaleFiles(cutoff_time) :
                                         files[i].sid = s
                              THEN Append(oplog[s], "cleanup_failed")
                              ELSE oplog[s]]
    /\ Goto(t, "idle")
    /\ tlocal' = [tlocal EXCEPT ![t] = NoLocal]
    /\ UNCHANGED <<session_buffers, session_files, last_flush, lock, now, calls,
                   appended>>
    /\ UNCHANGED <<parseVars, loopVars, evVars, reqVars>>

\* a second passes
Tick ==
    /\ now < StartTime + MaxTicks
    /\ now' = now + 1
    /\ UNCHANGED <<session_buffers, session_files, last_flush, lock, files,
                   tpc, tlocal, calls, appended, oplog>>
    /\ UNCHANGED <<parseVars, loopVars, evVars, reqVars>>

LogNext ==
    \/ WorkerAcquire
    \/ WorkerSnapshot
    \/ WorkerPick
    \/ WorkerSleep
    \/ \E t \in Threads : FlushTime(t)
    \/ \E t \in Threads : FlushTest(t)
    \/ \E t \in Threads : FlushAcquire(t)
    \/ \E t \in Threads : FlushWrites(t)
    \/ \E t \in Threads : FlushFindsNothing(t)
    \/ \E t \in Clients : AppendIgnored(t)
    \/ \E t \in Clients : AppendAcquire(t)
    \/ \E t \in Clients : AppendBody(t)
    \/ \E t \in Clients : CompleteNoop(t)
    \/ \E t \in Clients : CompleteCall(t)
    \/ \E t \in Clients : CompleteAcquire(t)
    \/ \E t \in Clients : CompleteBody(t)
    \/ Tick

(***************************************************************************)
(* InferenceLogger (inference_logger.py).  A record is the event_type and  *)
(* the session_id of a line of the daily .jsonl file.  An argument is      *)
(* "mapping" or "text" (a value of the annotated type that json.dumps      *)
(* accepts), "unserializable" (a mapping holding a value json.dumps        *)
(* rejects, such as a set) or "none" (None).  store_ok says whether the    *)
(* open and write of the log file succeed.                                 *)
(***************************************************************************)
MaxEvents == 3        \* calls made on the logger

MaxMessageLength == 2   \* the configured max_message_length (line 45)

\* the defaults of lines 24, 40, 44 and 51
DefaultConfig ==
    [enabled |-> TRUE, to_file |-> TRUE, truncate_long |-> FALSE,
     log_assistant_responses |-> TRUE]
Configs ==
    [enabled : BOOLEAN, to_file : BOOLEAN, truncate_long : BOOLEAN,
     log_assistant_responses : BOOLEAN]

\* line 65: "...[truncated]"
TruncationMarker ==
    <<".", ".", ".", "[", "t", "r", "u", "n", "c", "a", "t", "e", "d", "]">>

\* the texts passed as message bodies: empty, of the configured length, and
\* longer than the configured length and the marker together
TextOf(n) == [i \in 1..n |-> "a"]
Texts ==
    { TextOf(0), TextOf(MaxMessageLength),
      TextOf(MaxMessageLength + Len(TruncationMarker) + 1) }

\* _truncate_if_needed, lines 61-65
truncate_if_needed(text) ==
    IF ~ev_config.truncate_long \/ Len(text) <= MaxMessageLength THEN text
    ELSE SubSeq(text, 1, MaxMessageLength) \o TruncationMarker

PayloadValues == { "mapping", "unserializable", "none" }
ResponseValues == { "text", "none" }
ToolInputValues == { "mapping", "unserializable" }
ContextValues == { "none", "mapping", "unserializable" }
LoggedTools == { "get_cwd", "read_file" }

\* a line of the log: bodies are the message bodies it holds, total_rounds
\* the field of that name (0 in the records that have none)
RecordOf(event_type, session_id, bodies, total_rounds) ==
    [event_type |-> event_type, session_id |-> session_id,
     bodies |-> bodies, total_rounds |-> total_rounds]

Record(event_type, session_id) == RecordOf(event_type, session_id, {}, 0)

EvNone == [kind |-> "none", exc |-> ""]
EvReturned == [kind |-> "return", exc |-> ""]
EvRaised(exc) == [kind |-> "raise", exc |-> exc]

\* lines 93-98
NewSession == [inference_rounds |-> 0, tools_used |-> {}]

EvInit(config) ==
    /\ ev_config = config
    /\ session_data = EmptyMap
    /\ records = <<>>
    /\ error_lines = <<>>
    /\ ev_calls = 0
    /\ ev_outcome = EvNone
    /\ ev_reported = EmptyMap

\* _write_log, line 72: json.dumps is outside the try block of lines 80-85
WriteLogOutcome(serializable) ==
    IF serializable THEN EvReturned ELSE EvRaised("TypeError")

\* _write_log, lines 79-85: the file after the call; a failure of open or
\* write is caught
RecordsAfter(log_entry, serializable, store_ok) ==
    IF serializable /\ ev_config.to_file /\ store_ok
    THEN Append(records, log_entry)
    ELSE records

\* a call that returns at its first test (not self.enabled, and the like)
EvReturnsAtOnce ==
    /\ ev_outcome' = EvReturned
    /\ UNCHANGED <<session_data, records, error_lines>>

\* the round of the last assistant turn reported for a session, kept from
\* the call of log_inference_start to that of log_session_complete
Reported(session_id, inference_round) ==
    ev_reported' =
        IF session_id \in DOMAIN ev_reported
        THEN Put(ev_reported, session_id, inference_round)
        ELSE ev_reported

\* log_inference_start, lines 87-129
log_inference_start ==
    /\ ev_calls < MaxEvents
    /\ \E session_id \in SessionIds, body \in PayloadValues, content \in Texts,
          store_ok \in BOOLEAN :
        IF ~ev_config.enabled THEN EvReturnsAtOnce /\ UNCHANGED ev_reported
        ELSE /\ session_data' = Put(session_data, session_id, NewSession)
             /\ ev_reported' = Put(ev_reported, session_id, 0)
             /\ IF body = "none"
                THEN \* line 113: "messages" in None
                     /\ ev_outcome' = EvRaised("TypeError")
                     /\ records' = records
                ELSE \* lines 113-120: the content of the message of the payload
                     /\ ev_outcome' = WriteLogOutcome(body = "mapping")
                     /\ records' =
                            RecordsAfter(RecordOf("inference_start", session_id,
                                                  { truncate_if_needed(content) }, 0),
                                         body = "mapping", store_ok)
             /\ UNCHANGED error_lines
    /\ ev_calls' = ev_calls + 1
    /\ UNCHANGED ev_config
    /\ UNCHANGED <<parseVars, loopVars, logVars, reqVars>>

\* log_assistant_response, lines 131-158
log_assistant_response ==
    /\ ev_calls < MaxEvents
    /\ \E session_id \in SessionIds, inference_round \in 1..2,
          cleaned_response \in ResponseValues, raw_response \in Texts,
          store_ok \in BOOLEAN :
        /\ Reported(session_id, inference_round)
        /\ IF ~ev_config.enabled \/ ~ev_config.log_assistant_responses
           THEN \* line 134, before the session tracking of lines 138-139
                EvReturnsAtOnce
           ELSE /\ session_data' =
                       IF session_id \in DOMAIN session_data
                       THEN [session_data EXCEPT
                               ![session_id].inference_rounds = inference_round]
                       ELSE session_data
                /\ IF cleaned_response = "none"
                   THEN \* line 149: len(None)
                        /\ ev_outcome' = EvRaised("TypeError")
                        /\ records' = records
                   ELSE \* lines 155-156: the raw and the cleaned response
                        /\ ev_outcome' = WriteLogOutcome(TRUE)
                        /\ records' =
                               RecordsAfter(RecordOf("assistant_response", session_id,
                                                     { truncate_if_needed(raw_response) },
                                                     0),
                                            TRUE, store_ok)
                /\ UNCHANGED error_lines
    /\ ev_calls' = ev_calls + 1
    /\ UNCHANGED ev_config
    /\ UNCHANGED <<parseVars, loopVars, logVars, reqVars>>

\* log_tool_execution, lines 160-184
log_tool_execution ==
    /\ ev_calls < MaxEvents
    /\ \E session_id \in SessionIds, tool_name \in LoggedTools,
          tool_input \in ToolInputValues, input_text \in Texts,
          tool_result \in Texts, store_ok \in BOOLEAN :
        IF ~ev_config.enabled THEN EvReturnsAtOnce
        ELSE /\ session_data' =
                    IF session_id \in DOMAIN session_data
                    THEN [session_data EXCEPT
                            ![session_id].tools_used = @ \cup {tool_name}]
                    ELSE session_data
             /\ ev_outcome' = WriteLogOutcome(tool_input = "mapping")
             \* line 175: tool_input as it is, a mapping whose one value is
             \* input_text; lines 181-182: tool_result
             /\ records' =
                    RecordsAfter(RecordOf("tool_execution", session_id,
                                          { input_text } \cup
                                          (IF tool_result # <<>>
                                           THEN { truncate_if_needed(tool_result) }
                                           ELSE {}),
                                          0),
                                 tool_input = "mapping", store_ok)
             /\ UNCHANGED error_lines
    /\ ev_calls' = ev_calls + 1
    /\ UNCHANGED <<ev_config, ev_reported>>
    /\ UNCHANGED <<parseVars, loopVars, logVars, reqVars>>

\* log_session_complete, lines 186-209
log_session_complete ==
    /\ ev_calls < MaxEvents
    /\ \E session_id \in SessionIds, store_ok \in BOOLEAN :
        IF ~ev_config.enabled \/ session_id \notin DOMAIN session_data
        THEN EvReturnsAtOnce /\ UNCHANGED ev_reported
        ELSE /\ ev_outcome' = WriteLogOutcome(TRUE)
             /\ ev_reported' = Del(ev_reported, session_id)
             \* line 199: total_rounds
             /\ records' =
                    RecordsAfter(RecordOf("session_complete", session_id, {},
                                          session_data[session_id].inference_rounds),
                                 TRUE, store_ok)
             /\ session_data' = Del(session_data, session_id)
             /\ UNCHANGED error_lines
    /\ ev_calls' = ev_calls + 1
    /\ UNCHANGED ev_config
    /\ UNCHANGED <<parseVars, loopVars, logVars, reqVars>>

\* log_error, lines 211-236: the record, then the line of the error log,
\* whose failure is caught as well
log_error ==
    /\ ev_calls < MaxEvents
    /\ \E session_id \in SessionIds, context \in ContextValues,
          error_message \in Texts, store_ok \in BOOLEAN,
          error_store_ok \in BOOLEAN :
        IF ~ev_config.enabled THEN EvReturnsAtOnce
        ELSE LET serializable == context # "unserializable"
             IN /\ ev_outcome' = WriteLogOutcome(serializable)
                \* line 221: error_message as it is
                /\ records' = RecordsAfter(RecordOf("error", session_id,
                                                    { error_message }, 0),
                                           serializable, store_ok)
                /\ error_lines' =
                       IF serializable /\ error_store_ok
                       THEN Append(error_lines, session_id)
                       ELSE error_lines
                /\ UNCHANGED session_data
    /\ ev_calls' = ev_calls + 1
    /\ UNCHANGED <<ev_config, ev_reported>>
    /\ UNCHANGED <<parseVars, loopVars, logVars, reqVars>>

EventNext ==
    \/ log_inference_start
    \/ log_assistant_response
    \/ log_tool_execution
    \/ log_session_complete
    \/ log_error

\* no request is being served
NoPayload == [kind |-> "none", messages |-> <<>>]
NoResponse == [status |-> 0, body |-> "none"]
ReqIdle ==
    /\ payload = NoPayload
    /\ http = NoResponse

(***************************************************************************)
(* The specifications.                                                     *)
(***************************************************************************)
ParseIdle ==
    /\ p_pc = "idle"
    /\ p_text = <<>>
    /\ p_object = JNone
    /\ p_cut = 0
    /\ p_result = NoResult

\* parse_tool_call is applied to the text
Parse ==
    /\ p_pc = "input"
    /\ p_result' = parse_tool_call(p_text)
    /\ p_pc' = "done"
    /\ UNCHANGED <<p_text, p_object, p_cut>>
    /\ UNCHANGED <<loopVars, logVars, evVars, reqVars>>

InitParse ==
    /\ p_pc = "input"
    /\ p_result = NoResult
    /\ \E prefix \in Prefixes, marker \in Markers, fence \in Fences,
          o \in Objects, cut \in 0..MaxCut, tail \in Tails :
        /\ p_object = o
        /\ p_cut = cut
        /\ p_text = prefix \o marker \o fence \o CutTail(Serialize(o), cut)
                    \o (IF cut = 0 THEN tail ELSE <<>>)
    /\ LoopInit(<<>>)
    /\ LogInit
    /\ EvInit(DefaultConfig)
    /\ ReqIdle

NextParse == Parse

SpecParse == InitParse /\ [][NextParse]_vars

InitLoop ==
    /\ ParseIdle
    /\ \E body \in Payloads : RequestInit(body)
    /\ LogInit
    /\ EvInit(DefaultConfig)

NextLoop == LoopNext

SpecLoop == InitLoop /\ [][NextLoop]_vars

InitLog ==
    /\ ParseIdle
    /\ LoopInit(<<>>)
    /\ LogInit
    /\ EvInit(DefaultConfig)
    /\ ReqIdle

NextLog == LogNext

SpecLog == InitLog /\ [][NextLog]_vars

\* the logger with cleanup_old_sessions among the calls of the clients
NextLogCleanup ==
    \/ LogNext
    \/ \E t \in Clients : CleanupCall(t)
    \/ \E t \in Clients : CleanupOldSessions(t)

SpecLogCleanup == InitLog /\ [][NextLogCleanup]_vars

\* the logger with one thread serving a session (append_chunk and
\* complete_session) and another thread running cleanup_old_sessions
Caller == "t1"
Maintenance == "t2"

NextCleanup ==
    \/ WorkerAcquire
    \/ WorkerSnapshot
    \/ WorkerPick
    \/ WorkerSleep
    \/ \E t \in { Worker, Caller } : FlushTime(t)
    \/ \E t \in { Worker, Caller } : FlushTest(t)
    \/ \E t \in { Worker, Caller } : FlushAcquire(t)
    \/ \E t \in { Worker, Caller } : FlushWrites(t)
    \/ \E t \in { Worker, Caller } : FlushFindsNothing(t)
    \/ AppendAcquire(Caller)
    \/ AppendBody(Caller)
    \/ CompleteCall(Caller)
    \/ CompleteAcquire(Caller)
    \/ CompleteBody(Caller)
    \/ CleanupCall(Maintenance)
    \/ CleanupOldSessions(Maintenance)
    \/ Tick

SpecCleanup == InitLog /\ [][NextCleanup]_vars

\* the logger on a disk where open, write and flush may raise
NextLogFaults ==
    \/ LogNext
    \/ \E t \in Threads : FlushFails(t)

SpecLogFaults == InitLog /\ [][NextLogFaults]_vars

InitEvent ==
    /\ ParseIdle
    /\ LoopInit(<<>>)
    /\ LogInit
    /\ \E config \in Configs : EvInit(config)
    /\ ReqIdle

NextEvent == EventNext

SpecEvent == InitEvent /\ [][NextEvent]_vars

Init == InitLoop
Next == NextLoop
Spec == SpecLoop


(***************************************************************************)
(* Properties.                                                             *)
(***************************************************************************)
Last(q) == q[Len(q)]

\* the contents of the non-empty chunk events among es, in order
RECURSIVE ChunkContents(_)
ChunkContents(es) ==
    IF es = <<>> THEN <<>>
    ELSE (IF Head(es).type = "chunk" /\ Head(es).content # <<>>
          THEN <<Head(es).content>> ELSE <<>>)
         \o ChunkContents(Tail(es))

\* what has been written to the file behind the open handle of a session
Written(s) ==
    IF s \in DOMAIN session_files THEN files[session_files[s]].content ELSE <<>>

CompleteOps == { "complete", "complete_noop", "complete_unmoved" }

\* complete_session has not yet cleaned the session up
NotCompleted(s) ==
    \A i \in 1..Len(oplog[s]) : oplog[s][i] \notin { "complete", "complete_unmoved" }

\* C1 (as claimed): for a text with exactly one start marker followed by the
\* text of a JSON object that has a name field, parse_tool_call returns a
\* request whose name and input are those of that object, whatever
\* characters its strings hold.
C1_ExactRequest ==
    (/\ p_pc = "done"
     /\ Occurrences(p_text) = 1
     /\ p_cut = 0
     /\ HasKey(p_object, NameKey))
    => /\ p_result.kind = "return"
       /\ GetKey(p_result.data, NameKey) = GetKey(p_object, NameKey)
       /\ GetOr(p_result.data, InputKey, JNone) = GetOr(p_object, InputKey, JNone)

\* C2: while and after a turn whose text holds two or more start markers is
\* handled, neither parse_tool_call nor execute_tool has been called for it.
C2_NoExtractionOnMultiple ==
    Occurrences(assistant_response) > 1 =>
        \A i \in 1..Len(turn_calls) :
            turn_calls[i] \notin { "parse_tool_call", "execute_tool" }

\* C2 witness: a turn with two start markers has been handled to its end.
C2_Witness ==
    /\ pc = "open"
    /\ turn > 0
    /\ Occurrences(assistant_response) > 1
    /\ Last(messages) = Msg("user", ToolErrorMsg)

\* C3: once a turn without start marker has ended, its text is the last
\* message, an assistant message; the only step the loop takes is to
\* terminate, appending and emitting nothing; and once terminated it opens
\* no stream, appends no message and emits no event, the turn having
\* emitted no tool_call event.
C3_NoCallTerminates ==
    /\ [][(pc = "done_yield" /\ Occurrences(assistant_response) = 0)
            => (pc' = "terminated" /\ UNCHANGED <<messages, events>>)]_vars
    /\ [](pc = "terminated" =>
            /\ Occurrences(assistant_response) = 0
            /\ Last(messages) = Msg("assistant", assistant_response)
            /\ \A i \in 1..Len(turn_events) : turn_events[i].role # "tool_call")
    /\ [][pc = "terminated" => UNCHANGED <<pc, messages, events, turn>>]_vars

\* C3 witness: the loop has terminated on a turn that carried text.
C3_Witness ==
    /\ pc = "terminated"
    /\ assistant_response # <<>>
    /\ Last(messages) = Msg("assistant", assistant_response)

\* C4: a dispatch never lets an exception leave the loop; after a failed
\* tool invocation the last message is a user message carrying the error
\* text, and the next step of the loop is back to the top of the loop.
C4_ToolFailureContinues ==
    /\ [][pc = "parsed" => pc' = "result_yield"]_vars
    /\ [](pc = "result_yield" /\ outcome.kind = "raise" =>
            /\ Last(messages).role = "user"
            /\ Last(messages).content = <<"Tool execution error: ">> \o outcome.text)
    /\ [][pc = "result_yield" => pc' = "open"]_vars

\* C4 witness: a new stream has been opened after a tool invocation that
\* failed with a TypeError (a name that is not a string).
C4_Witness ==
    /\ pc = "stream"
    /\ turn = 2
    /\ outcome.kind = "raise"
    /\ outcome.exc = "TypeError"

C6_ChunkReachesLogBuffer ==
    /\ Concat(ChunkContents(turn_events)) = assistant_response
    /\ \E s \in SessionIds :
          Lookup(session_buffers, s, <<>>) = ChunkContents(events)

\* C7 (as claimed): when the history of a session is an append of a
\* non-empty text, then complete (no flush in between), then nothing but
\* passes of the flush worker, no file of that session is on disk.
C7_NoResidualFile ==
    \A s \in SessionIds :
        (/\ Len(oplog[s]) >= 2
         /\ oplog[s][1] = "append"
         /\ oplog[s][2] \in CompleteOps
         /\ \A i \in 3..Len(oplog[s]) : oplog[s][i] = "flush")
        => \A i \in 1..Len(files) : files[i].sid # s

C9_NoStateAfterComplete ==
    \A s \in SessionIds :
        (/\ oplog[s] # <<>>
         /\ Last(oplog[s]) \in CompleteOps
         /\ tpc[Worker] = "sleep"
         /\ \A t \in Clients : tpc[t] = "idle")
        => /\ s \notin DOMAIN session_buffers
           /\ s \notin DOMAIN session_files
           /\ s \notin DOMAIN last_flush

\* C10: for a session complete has not cleaned up, what has been written to
\* its file followed by the concatenation of its buffer is the
\* concatenation of every chunk appended so far, in append order.
C10_NoChunkLostOrDuplicated ==
    \A s \in SessionIds :
        NotCompleted(s) =>
            Written(s) \o Concat(Lookup(session_buffers, s, <<>>))
                = Concat(appended[s])

\* C10 witness: a session has content on file and a chunk that arrived
\* after the flush in its buffer.
C10_Witness ==
    \E s \in SessionIds :
        /\ NotCompleted(s)
        /\ Written(s) # <<>>
        /\ Lookup(session_buffers, s, <<>>) # <<>>
        /\ Len(appended[s]) >= 2

\* the chunks of q at the positions in I, in order
RECURSIVE Select(_, _)
Select(q, I) ==
    IF q = <<>> THEN <<>>
    ELSE Select(SubSeq(q, 1, Len(q) - 1), I)
         \o (IF Len(q) \in I THEN <<q[Len(q)]>> ELSE <<>>)

\* chunks is made of chunks of the sequence q, each once and in the order
\* of q
ChunksOf(chunks, q) ==
    \E I \in SUBSET (1..Len(q)) : chunks = Select(q, I)

\* C11: the buffer of a session holds only chunks appended under its id, in
\* append order, and every file of the session holds only such chunks,
\* each whole and in append order, whatever the other session does.
C11_SessionsDoNotMix ==
    \A s \in SessionIds :
        /\ ChunksOf(Lookup(session_buffers, s, <<>>), appended[s])
        /\ \A i \in 1..Len(files) :
              files[i].sid = s =>
                  \E I \in SUBSET (1..Len(appended[s])) :
                      files[i].content = Concat(Select(appended[s], I))

\* C11 witness: chunks of the two sessions were appended alternately and
\* both sessions have a file with content.
C11_Witness ==
    /\ Len(appended["s1"]) + Len(appended["s2"]) >= 3
    /\ appended["s1"] # <<>>
    /\ appended["s2"] # <<>>
    /\ Written("s1") # <<>>
    /\ Written("s2") # <<>>
    /\ \E i \in 1..Len(appended["s1"]), j \in 1..Len(appended["s2"]) :
          appended["s2"][j][1] < appended["s1"][i][1]
    /\ \E i \in 1..Len(appended["s1"]), j \in 1..Len(appended["s2"]) :
          appended["s1"][i][1] < appended["s2"][j][1]

\* the file of a session is at its active path
FileExists(s) == ActiveFile(s) # 0

\* a chunk of the session has been flushed since its file was last moved
\* out of the active directory (by complete_session or by
\* cleanup_old_sessions), or since the start when it never was
FlushedSinceRemoved(s) ==
    \E i \in 1..Len(oplog[s]) :
        /\ oplog[s][i] = "flush"
        /\ \A j \in (i + 1)..Len(oplog[s]) :
              oplog[s][j] \notin { "complete", "cleanup" }

\* C12 (as claimed): at every state reached by appends, flushes, completes
\* and clean-ups, the log file of a session exists exactly when a chunk of
\* the session has been flushed since the file was last removed.
C12_FileIffFlushed ==
    \A s \in SessionIds : FileExists(s) <=> FlushedSinceRemoved(s)

\* C13 (as claimed): a failure of open, write or flush on the log file of a
\* session leaves neither complete_session nor the flush worker: no call of
\* complete_session has raised and the worker thread is alive.
C13_WriteFailureContained ==
    /\ tpc[Worker] # "dead"
    /\ \A s \in SessionIds :
          \A i \in 1..Len(oplog[s]) : oplog[s][i] # "complete_raised"

\* C14 (as claimed): no call on the event logger raises to its caller,
\* whatever its arguments and whether or not the record store can be
\* written.
C14_LoggerNeverRaises ==
    ev_outcome.kind # "raise"

\* the records of one type
RecordsOf(event_type) ==
    { i \in 1..Len(records) : records[i].event_type = event_type }

\* a tool_call event that reports a dispatch (lines 182 and 190)
ReportsDispatch(e) ==
    /\ e.role = "tool_call"
    /\ \/ e.content[1] = "Tool execution error: "
       \/ Len(e.content) >= 2 /\ e.content[1] = "Tool result: " /\ e.content[2] = Fence

\* C15 (as claimed): when the loop has terminated the record store holds
\* an inference_start record first, one assistant_response record for each
\* turn, one tool_execution record for each dispatch, and a
\* session_complete record last.
C15_LoopWritesRecords ==
    pc = "terminated" =>
        /\ records # <<>>
        /\ records[1].event_type = "inference_start"
        /\ Cardinality(RecordsOf("inference_start")) = 1
        /\ Cardinality(RecordsOf("assistant_response")) = turn
        /\ Cardinality(RecordsOf("tool_execution")) =
              Cardinality({ i \in 1..Len(events) : ReportsDispatch(events[i]) })
        /\ Last(records).event_type = "session_complete"
        /\ Cardinality(RecordsOf("session_complete")) = 1

\* the request just dispatched names a registered tool and gives an input
\* that is absent, the empty string or an empty mapping, and the body of
\* the tool did not raise
ZeroParameterRequest ==
    /\ pc = "result_yield"
    /\ GetKey(tool_call_data, NameKey).t = "str"
    /\ GetKey(tool_call_data, NameKey).s \in ToolNames
    /\ \/ ~HasKey(tool_call_data, InputKey)
       \/ GetKey(tool_call_data, InputKey) \in { JStr(<<>>), JObj(<<>>) }
    /\ outcome.text #
          WrapError(GetKey(tool_call_data, NameKey).s,
                    ToolFailure(GetKey(tool_call_data, NameKey).s))

\* C16 (as claimed): for a request whose input is absent, the empty string
\* or an empty mapping, the dispatch returns the result of the named tool.
C16_ZeroParametersReturn ==
    ZeroParameterRequest =>
        outcome = Returned(ToolOutput(GetKey(tool_call_data, NameKey).s))

\* C16 (amended): for such a request the named tool is called with zero
\* parameters, whichever of the three forms the input has: a tool without
\* required parameter returns its result, and a tool with a required
\* parameter fails with the wrapped error of the call.
C16_ZeroParameters ==
    ZeroParameterRequest =>
        LET name == GetKey(tool_call_data, NameKey).s
        IN IF RequiredParams(name) = {}
           THEN outcome = Returned(ToolOutput(name))
           ELSE outcome = Raised("ValueError", WrapError(name, <<"TypeError">>))

\* C16 witness: a tool was called for a request whose input is the empty
\* string, and returned.
C16_Witness ==
    /\ ZeroParameterRequest
    /\ HasKey(tool_call_data, InputKey)
    /\ GetKey(tool_call_data, InputKey) = JStr(<<>>)
    /\ outcome.kind = "return"

\* C17 (as claimed): a dispatch whose name is not a tool of the registry
\* fails with the unknown-tool error and calls nothing.
C17_OnlyRegisteredTools ==
    pc = "result_yield" =>
        LET name == GetKey(tool_call_data, NameKey)
            tool_input == GetOr(tool_call_data, InputKey, JObj(<<>>))
        IN (name.t # "str" \/ name.s \notin ToolNames) =>
              /\ ~Invokes(name, tool_input)
              /\ outcome.kind = "raise"
              /\ name.t = "str" =>
                    outcome.text \in
                        { <<"Unknown tool: ">> \o name.s,
                          <<"Unknown tool or uncallable tool: ">> \o name.s }

\* a member of the object is itself an object
HasNestedObject(o) ==
    o.t = "obj" /\ \E i \in 1..Len(o.m) : o.m[i].v.t = "obj"

\* C18: for a text holding the start marker and then the whole text of an
\* object with nested objects, the scan ends one position past the brace
\* that closes the outer object: what it extracts is the text of the
\* whole outer object.
C18_ScanFindsOuterBrace ==
    ( /\ p_pc = "done"
      /\ FindFrom(p_text, StartMarker, 1) # 0
      /\ p_cut = 0
      /\ HasNestedObject(p_object) )
    => tool_call_block(p_text) = Serialize(p_object)

\* the text holds the start marker and an opening brace after it, and ends
\* before the brace that closes the object (its last tokens are cut off)
TruncatedCall ==
    /\ p_pc = "done"
    /\ p_cut > 0
    /\ FindFrom(p_text, StartMarker, 1) # 0
    /\ FindFrom(p_text, "{", FindFrom(p_text, StartMarker, 1)) # 0

\* C19: for a text with the start marker and an opening brace whose
\* closing brace is missing, parse_tool_call raises an error to its caller
\* and returns no request.
C19_TruncatedCallRaises ==
    TruncatedCall => p_result.kind = "raise" /\ p_result.data = JNone

\* C19 witness: the scan of a truncated text ran past the end of the text
\* and the call raised.
C19_Witness ==
    /\ TruncatedCall
    /\ ScanBraces(p_text,
                  FindFrom(p_text, "{", FindFrom(p_text, StartMarker, 1)) + 1,
                  1) = 0
    /\ p_result = Raise("IndexError")

\* C20: a malformed request is answered with the error object and a
\* client-error status, and nothing is streamed for it: no model stream is
\* opened and no event is sent.
C20_MalformedRequestRejected ==
    (pc # "request" /\ Malformed(payload)) =>
        /\ http = ErrorResponse
        /\ turn = 0
        /\ events = <<>>

\* the tool_call events of a sequence of events
ToolCallEvents(es) == SelectSeq(es, LAMBDA e : e.role = "tool_call")

\* C21: a turn with more than one start marker makes the loop emit one
\* tool_call event carrying the multiple-tool-call text, call neither the
\* parser nor a tool, append one user message with that same text, and go
\* back to the top of the loop, where a new model stream is opened.
C21_MultipleCallsContinue ==
    /\ [][(pc = "done_yield" /\ Occurrences(assistant_response) > 1)
            => pc' = "multi_yield"]_vars
    /\ [](pc = "multi_yield" =>
            /\ ToolCallEvents(turn_events) = <<ToolCallEvent(ToolErrorMsg)>>
            /\ turn_calls = <<>>)
    /\ [][pc = "multi_yield" =>
            /\ messages' = Append(messages, Msg("user", ToolErrorMsg))
            /\ events' = events
            /\ pc' = "open"]_vars
    /\ []((pc = "open" /\ turn < MaxTurns) => ENABLED OpenStream)

\* C21 witness: a second stream has been opened after a turn with two
\* start markers, and the user message with the violation text is the
\* last message of the conversation.
C21_Witness ==
    /\ pc = "stream"
    /\ turn = 2
    /\ Last(messages) = Msg("user", ToolErrorMsg)
    /\ Occurrences(messages[Len(messages) - 1].content) = 2

\* C22: when the turn holds one start marker and parse_tool_call fails,
\* whatever the failure, the loop appends one user message asking for a
\* better-formed call, emits a tool_call event with the same text, calls no
\* tool, and goes back to the top of the loop.
C22_ParseFailureContinues ==
    /\ [][(/\ pc = "done_yield"
            /\ Occurrences(assistant_response) = 1
            /\ parse_tool_call(assistant_response).kind = "raise")
           => /\ pc' = "error_yield"
              /\ messages' = Append(messages, Msg("user", ParseErrorMsg))
              /\ events' = Append(events, ToolCallEvent(ParseErrorMsg))]_vars
    /\ [](pc = "error_yield" =>
            /\ turn_calls = <<"parse_tool_call">>
            /\ ToolCallEvents(turn_events) = <<ToolCallEvent(ParseErrorMsg)>>)
    /\ [][pc = "error_yield" =>
            /\ pc' = "open"
            /\ UNCHANGED <<messages, events, turn_calls>>]_vars

\* C22 witness: a second stream has been opened after a turn whose call
\* was cut short (the scan ran past the end of the text), and the user
\* message asking for a better-formed call is the last message.
C22_Witness ==
    /\ pc = "stream"
    /\ turn = 2
    /\ Last(messages) = Msg("user", ParseErrorMsg)
    /\ parse_tool_call(messages[Len(messages) - 1].content) = Raise("IndexError")

\* the steps of thread t that read or write session_buffers, session_files
\* or last_flush
MapAccess(t) ==
    \/ t = Worker /\ WorkerSnapshot
    \/ FlushTime(t)
    \/ FlushTest(t)
    \/ FlushWrites(t)
    \/ FlushFindsNothing(t)
    \/ AppendBody(t)
    \/ CompleteNoop(t)
    \/ CompleteCall(t)
    \/ CompleteBody(t)

\* C23 (as claimed): every step of a thread that reads or writes one of
\* the shared per-session maps is taken while that thread holds the lock.
C23_MapsOnlyUnderLock ==
    [][\A t \in Threads : MapAccess(t) => lock = t]_vars

\* a pass of cleanup_old_sessions by thread t ends with this step
CleanupPass(t) == tpc[t] = "cleanup" /\ tpc'[t] = "idle"

\* no rename of the pass failed: no stale file was left behind
NoRenameFailed ==
    \A s \in SessionIds :
        oplog'[s] = oplog[s] \/ Last(oplog'[s]) # "cleanup_failed"

\* C24 (as claimed): after a pass of cleanup_old_sessions in which no
\* rename failed, no file older than the cutoff is left on disk.
C24_StaleFilesDeleted ==
    [][\A t \in Clients :
          (CleanupPass(t) /\ NoRenameFailed) =>
              \A i \in 1..Len(files) :
                  files[i].mtime < tlocal[t].current_time
                      => files'[i].dir = "replaced"]_vars

\* C24 (amended): a pass of cleanup_old_sessions deletes no file and
\* changes no content.  Every file of the active directory older than the
\* cutoff, whether or not its session has an open handle, is moved to the
\* completed directory under a clean-up name (when no rename fails), and
\* every other file, the files modified since the cutoff included, is left
\* as it is.
C24_StaleFilesMoved ==
    [][\A t \in Clients :
          CleanupPass(t) =>
              /\ Len(files') = Len(files)
              /\ \A i \in 1..Len(files) :
                    LET stale == /\ files[i].dir = "active"
                                 /\ files[i].mtime < tlocal[t].current_time
                        cleaned == [files[i] EXCEPT !.dir = "cleaned",
                                                    !.stamp = now]
                    IN IF stale
                       THEN \/ files'[i] = cleaned
                            \/ files'[i] = files[i] /\ ~NoRenameFailed
                       ELSE files'[i] = files[i]]_vars

\* C24 witness: the log of a session that still has its open handle has
\* been moved to the completed directory under a clean-up name, content
\* kept.
C24_Witness ==
    \E i \in 1..Len(files) :
        /\ files[i].dir = "cleaned"
        /\ files[i].content # <<>>
        /\ files[i].sid \in DOMAIN session_files
        /\ session_files[files[i].sid] = i
        /\ Last(oplog[files[i].sid]) = "cleanup"

IsPrefix(a, b) == Len(a) <= Len(b) /\ SubSeq(b, 1, Len(a)) = a

\* C25: from the moment inference_loop is given the conversation, every
\* step leaves the messages already present unchanged in content, role
\* and position: the conversation before a step is a prefix of the
\* conversation after it.
C25_ConversationAppendOnly ==
    [][pc # "request" => IsPrefix(messages, messages')]_vars

\* C25 witness: the conversation has grown by an assistant message and a
\* tool result behind the system message and the message of the user, and
\* the second stream is open.
C25_Witness ==
    /\ pc = "stream"
    /\ turn = 2
    /\ Len(messages) = 4
    /\ messages[1].role = "system"
    /\ messages[2] = Msg("user", <<"h", "i">>)
    /\ messages[3].role = "assistant"
    /\ messages[4].role = "user"

\* the fragment is malformed or empty: no choices, no delta, no content, or
\* a content that is the empty text
Anomalous(f) ==
    ~f.has_choices \/ ~f.has_delta \/ ~f.has_content \/ f.content = <<>>

\* C26 (as claimed): the step that consumes a malformed or empty fragment
\* emits no event, leaves the accumulated text of the turn unchanged and
\* stays in the stream.
C26_AnomalousFragmentSkipped ==
    [][\A f \in Fragments :
          (Anomalous(f) /\ (SkipFragment(f) \/ ReceiveChunk(f))) =>
              /\ events' = events
              /\ assistant_response' = assistant_response
              /\ pc' = "stream"]_vars

\* C27 (as claimed): with privacy truncation enabled, every message body
\* of every record written is at most MaxMessageLength long plus the
\* length of the truncation marker, and a body of at most MaxMessageLength
\* is one of the texts that were passed, unchanged.
C27_BodiesTruncated ==
    ev_config.truncate_long =>
        \A i \in 1..Len(records) : \A body \in records[i].bodies :
            /\ Len(body) <= MaxMessageLength + Len(TruncationMarker)
            /\ Len(body) <= MaxMessageLength => body \in Texts

\* C28 (as claimed): the total_rounds of a session_complete record is the
\* round of the last assistant turn reported for the session since its
\* inference_start, 0 when none was reported.
C28_TotalRoundsReported ==
    [][(/\ Len(records') = Len(records) + 1
        /\ Last(records').event_type = "session_complete")
       => Last(records').total_rounds =
              Lookup(ev_reported, Last(records').session_id, 0)]_vars

(***************************************************************************)
(* C29.  The thread that writes a session file.                            *)
(***************************************************************************)
\* a step that writes to a file: a file is created, or the content of a file
\* grows (lines 59 and 80-81)
FileWritten ==
    \/ Len(files') > Len(files)
    \/ \E i \in 1..Len(files) : files'[i].content # files[i].content

\* C29: the background flush worker is the only thread that writes to a
\* session file: no step that writes to a file is taken by a thread calling
\* append_chunk or complete_session (the writer is the thread that holds the
\* lock of lines 73-85 when the step is taken)
C29_OnlyWorkerWrites == [][FileWritten => lock = Worker]_vars

(***************************************************************************)
(* C30.  The flush worker under fairness.  The clock has no last second:   *)
(* when now has reached the largest reading kept, a further second is      *)
(* taken by moving the time stamps one second into the past.  A stamp as   *)
(* old as flush_interval stays as it is: the code compares a stamp with    *)
(* the present time only (lines 69, 129 and 156), and finds such a stamp   *)
(* old whatever its value.                                                 *)
(***************************************************************************)
Earlier(stamp) ==
    IF stamp > StartTime + MaxTicks - flush_interval THEN stamp - 1 ELSE stamp

\* a second passes once now = StartTime + MaxTicks
ClockRebase ==
    /\ now = StartTime + MaxTicks
    /\ last_flush' = [s \in DOMAIN last_flush |-> Earlier(last_flush[s])]
    /\ tlocal' = [t \in Threads |->
                    [tlocal[t] EXCEPT !.current_time = Earlier(@),
                                      !.wake = Earlier(@)]]
    /\ files' = [i \in 1..Len(files) |->
                    [files[i] EXCEPT !.mtime = Earlier(@),
                                     !.stamp = Earlier(@)]]
    /\ UNCHANGED <<session_buffers, session_files, lock, now, tpc, calls,
                   appended, oplog>>
    /\ UNCHANGED <<parseVars, loopVars, evVars, reqVars>>

\* the steps of the flush thread (_flush_worker and the _flush_session it
\* calls)
WorkerStep ==
    \/ WorkerSnapshot
    \/ WorkerPick
    \/ WorkerSleep
    \/ FlushTime(Worker)
    \/ FlushTest(Worker)
    \/ FlushWrites(Worker)
    \/ FlushFindsNothing(Worker)

\* the steps of the thread that serves the sessions
CallerStep ==
    \/ AppendAcquire(Caller)
    \/ AppendBody(Caller)
    \/ CompleteNoop(Caller)
    \/ CompleteCall(Caller)
    \/ FlushTime(Caller)
    \/ FlushTest(Caller)
    \/ FlushAcquire(Caller)
    \/ FlushWrites(Caller)
    \/ FlushFindsNothing(Caller)
    \/ CompleteAcquire(Caller)
    \/ CompleteBody(Caller)

\* a thread inside a with block leaves it
ReleaseStep ==
    \/ AppendBody(Caller)
    \/ FlushWrites(Caller)
    \/ FlushFindsNothing(Caller)
    \/ CompleteBody(Caller)

NextFair ==
    \/ WorkerAcquire
    \/ FlushAcquire(Worker)
    \/ WorkerStep
    \/ CallerStep
    \/ Tick
    \/ ClockRebase

\* the flush thread is scheduled fairly (it gets the lock when the lock is
\* free again and again), time passes, and no thread stays in a with block
SpecFair ==
    /\ InitLog
    /\ [][NextFair]_vars
    /\ WF_vars(WorkerStep)
    /\ SF_vars(WorkerAcquire)
    /\ SF_vars(FlushAcquire(Worker))
    /\ WF_vars(ReleaseStep)
    /\ WF_vars(Tick \/ ClockRebase)

\* the chunk of the n-th call is in the buffer of session sid
Pending(sid, n) ==
    /\ sid \in DOMAIN session_buffers
    /\ \E i \in 1..Len(session_buffers[sid]) :
            session_buffers[sid][i] = ChunkOf(n)

\* the chunk of the n-th call is in a file of session sid
ChunkWritten(sid, n) ==
    \E i \in 1..Len(files) :
        /\ files[i].sid = sid
        /\ \E j \in 1..Len(files[i].content) : files[i].content[j] = n

\* the position in oplog[sid] of the append of the chunk of the n-th call
AppendPosition(sid, n) ==
    LET k == CHOOSE k \in 1..Len(appended[sid]) : appended[sid][k] = ChunkOf(n)
        appends(m) == Len(SelectSeq(SubSeq(oplog[sid], 1, m),
                                    LAMBDA what : what = "append"))
    IN CHOOSE m \in 1..Len(oplog[sid]) :
           oplog[sid][m] = "append" /\ appends(m) = k

\* complete_session has ended session sid after the n-th call appended to it
CompletedSince(sid, n) ==
    /\ \E k \in 1..Len(appended[sid]) : appended[sid][k] = ChunkOf(n)
    /\ \E m \in (AppendPosition(sid, n) + 1)..Len(oplog[sid]) :
            oplog[sid][m] \in { "complete", "complete_unmoved" }

\* C30: under fairness of the flush worker and with no write failure, every
\* chunk appended to a session is eventually written to a file of the
\* session unless the session is completed: the interval check of
\* _flush_session postpones no buffered content forever
C30_BufferedEventuallyWritten ==
    \A sid \in SessionIds : \A n \in 1..MaxCalls :
        Pending(sid, n) ~> (ChunkWritten(sid, n) \/ CompletedSince(sid, n))

\* C30 witness: the worker has written two chunks of a session that was
\* never completed, in two passes, the second one past an interval check
\* that found a last flush of the session
C30_Witness ==
    \E sid \in SessionIds :
        /\ oplog[sid] = <<"append", "flush", "append", "flush">>
        /\ \A k \in 1..Len(appended[sid]) :
                \E n \in 1..MaxCalls :
                    appended[sid][k] = ChunkOf(n) /\ ChunkWritten(sid, n)
        /\ sid \in DOMAIN last_flush
        /\ last_flush[sid] >= StartTime + 2 * flush_interval

(***************************************************************************)
(* C31.  The loop ends on a turn without start marker and on no other.     *)
(***************************************************************************)
\* the assistant messages of a conversation
AssistantMessages(ms) == SelectSeq(ms, LAMBDA m : m.role = "assistant")

\* C31: the loop terminates if and only if a turn holds no start marker: a
\* turn without start marker ends the loop at once, the loop is terminated
\* only after such a turn, and a turn with one or more start markers
\* (multiple calls, parse failure, tool result or tool failure) leads back
\* to the top of the loop, where the model is invoked again; the number of
\* model invocations has no bound of its own
C31_TerminatesIffNoMarker ==
    /\ [][(pc = "done_yield" /\ Occurrences(assistant_response) = 0)
            => pc' = "terminated"]_vars
    /\ [](pc = "terminated" => Occurrences(assistant_response) = 0)
    /\ [][(pc = "done_yield" /\ Occurrences(assistant_response) >= 1)
            => pc' \in { "multi_yield", "error_yield", "parsed" }]_vars
    /\ [][pc = "parsed" => pc' = "result_yield"]_vars
    /\ [][(pc \in { "multi_yield", "error_yield", "result_yield" })
            => pc' = "open"]_vars
    /\ []((pc = "open" /\ turn < MaxTurns) => ENABLED OpenStream)

\* C31 witness: the model has been invoked MaxTurns times, every turn
\* before the last invocation having held a start marker
C31_Witness ==
    /\ pc = "stream"
    /\ turn = MaxTurns
    /\ Len(AssistantMessages(messages)) = MaxTurns - 1
    /\ \A i \in 1..Len(messages) :
            messages[i].role = "assistant"
                => Occurrences(messages[i].content) >= 1

(***************************************************************************)
(* C32.  The name of a request.                                            *)
(***************************************************************************)
\* C32: parse_tool_call returns a request only when the parsed object has
\* a name field whose value is a string: whenever the parser has returned
\* to the loop (line 167) or the dispatcher has been called (line 178), the
\* request holds a name and the name is a string
C32_NameIsString ==
    (pc = "parsed" \/ \E i \in 1..Len(turn_calls) : turn_calls[i] = "execute_tool")
        => /\ HasKey(tool_call_data, NameKey)
           /\ GetKey(tool_call_data, NameKey).t = "str"

(***************************************************************************)
(* C33.  What append_chunk changes.                                        *)
(***************************************************************************)
\* thread t enters the with block of append_chunk (line 106)
AppendEnters(t) == tpc[t] = "idle" /\ tpc'[t] = "append_locked"

\* thread t runs line 107 and leaves append_chunk
AppendLeaves(t) == tpc[t] = "append_locked" /\ tpc'[t] = "idle"

\* C33: append_chunk performs no file operation and changes nothing but
\* the chunk list of its session: the step that takes the lock changes no
\* map and no file, and the step of line 107 appends the content to the
\* list of the session and leaves the lists of the other sessions, the
\* file-handle map, the last-flush map and every file as they were
C33_AppendChangesOwnBufferOnly ==
    [][\A t \in Clients :
        /\ AppendEnters(t) =>
              UNCHANGED <<session_buffers, session_files, last_flush, files>>
        /\ AppendLeaves(t) =>
              /\ UNCHANGED <<session_files, last_flush, files>>
              /\ DOMAIN session_buffers' =
                     DOMAIN session_buffers \cup { tlocal[t].sid }
              /\ session_buffers'[tlocal[t].sid] =
                     Append(Lookup(session_buffers, tlocal[t].sid, <<>>),
                            tlocal[t].content)
              /\ \A s \in DOMAIN session_buffers \ { tlocal[t].sid } :
                     session_buffers'[s] = session_buffers[s]]_vars

\* C33 witness: a chunk has just been appended to a session while the
\* other session had an open file, a last flush and a chunk in its buffer
C33_Witness ==
    \E s \in SessionIds : \E o \in SessionIds \ { s } :
        /\ oplog[s] # <<>>
        /\ Last(oplog[s]) = "append"
        /\ Len(session_buffers[s]) = 1
        /\ o \in DOMAIN session_files
        /\ o \in DOMAIN last_flush
        /\ Lookup(session_buffers, o, <<>>) # <<>>
        /\ oplog[o] = <<"append", "flush", "append">>

(***************************************************************************)
(* C34.  The pause before a model stream.                                  *)
(***************************************************************************)
\* C34: the configured delay is applied before every opening of a model
\* stream, the first one and every re-entry alike: the step that opens a
\* stream sleeps delay_secs first, no other step sleeps, and the time
\* slept is at every moment delay_secs for each stream opened
C34_DelayBeforeEveryStream ==
    /\ [][turn' # turn =>
            /\ pc = "open"
            /\ turn' = turn + 1
            /\ slept' = slept + delay_secs]_vars
    /\ [][turn' = turn => slept' = slept]_vars
    /\ [](slept = turn * delay_secs)

\* C34 witness: a stream has been opened again after a protocol violation
\* (several calls, or a call that does not parse), with a pause before the
\* first stream and before the re-entry
C34_Witness ==
    /\ pc = "stream"
    /\ turn >= 2
    /\ slept = turn * delay_secs
    /\ slept > 0
    /\ Last(messages).role = "user"
    /\ Last(messages).content \in { ToolErrorMsg, ParseErrorMsg }

(***************************************************************************)
(* C35.  The order of the events of a turn.                                *)
(***************************************************************************)
\* the place of an event in a turn: 1 for a chunk event, 2 for the done
\* event, 3 for a tool_call event, 0 for any other object
Shape(e) ==
    IF e.role = "assistant" /\ e.type = "chunk" THEN 1
    ELSE IF e.role = "assistant" /\ e.type = "done" THEN 2
    ELSE IF e.role = "tool_call" /\ e.type = "" THEN 3
    ELSE 0

\* the number of events of shape k in es
CountShape(es, k) == Cardinality({ i \in 1..Len(es) : Shape(es[i]) = k })

\* the stream of the current turn has been read to its end
TurnStreamEnded ==
    \/ pc \in { "done_yield", "multi_yield", "error_yield", "parsed",
                "result_yield", "terminated" }
    \/ pc = "open" /\ turn > 0

\* C35: the events of a turn are zero or more chunk events, then one done
\* event, then at most one tool_call event: every event has one of the three
\* shapes, no event is followed by an event of an earlier place, a turn
\* emits at most one done and one tool_call event, and exactly one done
\* event once its stream has ended
C35_TurnEventsOrdered ==
    /\ \A i \in 1..Len(events) : Shape(events[i]) # 0
    /\ \A i \in 1..Len(turn_events) : \A j \in i..Len(turn_events) :
            Shape(turn_events[i]) <= Shape(turn_events[j])
    /\ CountShape(turn_events, 2) <= 1
    /\ CountShape(turn_events, 3) <= 1
    /\ TurnStreamEnded => CountShape(turn_events, 2) = 1
    /\ pc = "stream" => CountShape(turn_events, 1) = Len(turn_events)

\* C35 witness: a turn that emitted two chunk events, the done event and a
\* tool_call event, in that order
C35_Witness ==
    /\ Len(turn_events) = 4
    /\ Shape(turn_events[1]) = 1
    /\ Shape(turn_events[2]) = 1
    /\ Shape(turn_events[3]) = 2
    /\ Shape(turn_events[4]) = 3

(***************************************************************************)
(* C36.  The messages a turn appends.                                      *)
(***************************************************************************)
\* the conversation the loop was started on (line 218: the system message
\* in front of the inbound messages)
StartLength == 1 + Len(payload.messages)

\* the number of messages appended since the loop started
AppendedCount == Len(messages) - StartLength

\* C36: each turn appends one assistant message, and each turn that does
\* not end the loop appends one user message after it: while a stream is
\* read the turns before have appended two messages each; once the stream
\* has ended the assistant message of the turn is the last message; after
\* the branch on the start markers a user message follows it, unless the
\* loop terminates; so at every model invocation after the first the last
\* message is a user message
C36_MessagesPerTurn ==
    /\ pc = "stream" => AppendedCount = 2 * (turn - 1)
    /\ pc \in { "done_yield", "parsed", "multi_yield", "terminated" } =>
            /\ AppendedCount = 2 * turn - 1
            /\ Last(messages) = Msg("assistant", assistant_response)
    /\ (pc \in { "error_yield", "result_yield" } \/ (pc = "open" /\ turn > 0)) =>
            /\ AppendedCount = 2 * turn
            /\ Last(messages).role = "user"
            /\ messages[Len(messages) - 1] = Msg("assistant", assistant_response)
    /\ (pc = "stream" /\ turn > 1) => Last(messages).role = "user"

\* C36 witness: a second stream is being read after a turn whose tool call
\* returned: the conversation ends with the assistant message of that turn
\* and the user message holding the tool result
C36_Witness ==
    /\ pc = "stream"
    /\ turn = 2
    /\ AppendedCount = 2
    /\ outcome.kind = "return"
    /\ Last(messages) = Msg("user", ToolResultMessage(outcome.text))
    /\ messages[Len(messages) - 1].role = "assistant"

(***************************************************************************)
(* C37.  The assistant message and the chunks sent to the caller.          *)
(***************************************************************************)
\* the assistant message the current turn appended (line 143): the last
\* message, or the one before the user message that followed it
TurnMessage ==
    IF Last(messages).role = "assistant" THEN Last(messages)
    ELSE messages[Len(messages) - 1]

\* C37: once the stream of a turn has ended, the content of the assistant
\* message the turn appended is the concatenation, in emission order, of
\* the contents of the chunk events emitted during the turn; while the
\* stream is read, the text accumulated is the concatenation so far
C37_MessageIsChunksConcatenated ==
    /\ pc = "stream" => assistant_response = Concat(ChunkContents(turn_events))
    /\ TurnStreamEnded =>
            /\ TurnMessage.role = "assistant"
            /\ TurnMessage.content = Concat(ChunkContents(turn_events))

\* C37 witness: a turn of two chunks, the second one a tool call, has
\* ended and its assistant message holds both, in order
C37_Witness ==
    /\ TurnStreamEnded
    /\ Len(ChunkContents(turn_events)) = 2
    /\ ChunkContents(turn_events)[1] = <<"o", "k">>
    /\ Occurrences(ChunkContents(turn_events)[2]) = 1
    /\ TurnMessage.content =
            ChunkContents(turn_events)[1] \o ChunkContents(turn_events)[2]
    /\ Last(messages).role = "user"

(***************************************************************************)
(* C38.  The lock of the StreamingLogger: the threads of SpecFair on a     *)
(* disk where open, write and flush may raise, every thread that is inside *)
(* a call being scheduled again and again.                                 *)
(***************************************************************************)
\* the steps by which the serving thread goes on inside a call it has
\* started
CallerGoesOn ==
    \/ AppendBody(Caller)
    \/ FlushTime(Caller)
    \/ FlushTest(Caller)
    \/ FlushWrites(Caller)
    \/ FlushFindsNothing(Caller)
    \/ FlushFails(Caller)
    \/ CompleteBody(Caller)

NextFairFaults ==
    \/ NextFair
    \/ FlushFails(Worker)
    \/ FlushFails(Caller)

SpecFairFaults ==
    /\ InitLog
    /\ [][NextFairFaults]_vars
    /\ WF_vars(WorkerStep \/ FlushFails(Worker))
    /\ SF_vars(WorkerAcquire)
    /\ SF_vars(FlushAcquire(Worker))
    /\ WF_vars(CallerGoesOn)
    /\ SF_vars(FlushAcquire(Caller))
    /\ SF_vars(CompleteAcquire(Caller))
    /\ WF_vars(Tick \/ ClockRebase)

\* the positions inside a with self.lock block, and those at which a thread
\* is about to take the lock
LockedPositions ==
    { "snapshot_locked", "flush_locked", "append_locked", "complete_locked" }
AcquiringPositions == { "flush_acquire", "complete_acquire" }

\* the positions of the worker inside _flush_session
FlushPositions == { "flush_time", "flush_test", "flush_acquire", "flush_locked" }

\* C38: the logger cannot deadlock: the lock is held by a thread exactly
\* while the thread is inside a with block, so no thread is about to take
\* the lock while holding it and no thread leaves a call, by return or by
\* an exception of a write, with the lock held; and every append, flush and
\* complete call that has started finishes
C38_NoDeadlock ==
    /\ [](\A t \in Threads : lock = t <=> tpc[t] \in LockedPositions)
    /\ [](\A t \in Threads : tpc[t] \in AcquiringPositions => lock # t)
    /\ (lock # "free") ~> (lock = "free")
    /\ (tpc[Caller] # "idle") ~> (tpc[Caller] = "idle")
    /\ (tpc[Worker] \in FlushPositions)
            ~> (tpc[Worker] \in { "loop", "dead" })

\* C38 witness: a write of the worker has raised, and after it the serving
\* thread has taken the lock again and completed a session
C38_Witness ==
    /\ tpc[Worker] = "dead"
    /\ lock = "free"
    /\ tpc[Caller] = "idle"
    /\ \E s \in SessionIds :
            /\ oplog[s] # <<>>
            /\ Last(oplog[s]) \in { "complete", "complete_unmoved" }

(***************************************************************************)
(* C39.  Chunks appended while complete_session runs.                      *)
(***************************************************************************)
\* the n-th call appended its chunk to session sid
AppendedTo(sid, n) ==
    \E k \in 1..Len(appended[sid]) : appended[sid][k] = ChunkOf(n)

\* C39: no chunk whose append_chunk has returned is dropped by
\* complete_session: a chunk that was appended to a session is in the
\* buffer of the session or in a file of the session, also when it was
\* appended between the final flush of complete_session and its cleanup
C39_NoChunkDroppedByComplete ==
    \A sid \in SessionIds : \A n \in 1..MaxCalls :
        AppendedTo(sid, n) => (Pending(sid, n) \/ ChunkWritten(sid, n))

(***************************************************************************)
(* C40.  The file behind an open handle.                                   *)
(***************************************************************************)
\* C40: a session that has an open handle in session_files has its log
\* file at its active path: the file behind the handle is the file at
\* active/<session_id>.log, also after cleanup_old_sessions has run while
\* the handle was open
C40_OpenHandleAtActivePath ==
    \A sid \in DOMAIN session_files :
        /\ ActiveFile(sid) # 0
        /\ ActiveFile(sid) = session_files[sid]
====
